---- MODULE Spec2Model ----
(***************************************************************************)
(* Model of the comparison engine of ai_support_agent:                     *)
(*   tools/compare_processor.py  CompareProcessor                          *)
(*   types/pdf.py                PDFContent / PDFSpecification             *)
(*   types/comparison.py         ComparisonResponse and its parts          *)
(*   tools/transformers.py       UnitTransformer.format_display_value      *)
(*                                                                         *)
(* Python str is modelled by TLA+ strings (character access by SubSeq).    *)
(* Python dict (insertion ordered) is modelled by a sequence of            *)
(* [k |-> key, v |-> value] records with unique keys.  Optional[str] is a  *)
(* sequence of length 0 (None) or 1 (the string).                          *)
(* The bullet glyph U+2022 is written "*" (module text is ASCII only);     *)
(* likewise the ohm sign U+03A9 is written "@" and the degree sign "^",     *)
(* and the check mark U+2713 is written "+".                               *)
(***************************************************************************)
EXTENDS Integers, Sequences, FiniteSets, TLC

(***************************************************************************)
(* Bounds                                                                  *)
(***************************************************************************)
\* most rows in the first table of a document
MaxRows == 3

\* most entries of a directory handed to process_directory
MaxFiles == 3

\* most calls of a function decorated with a PreActionEnforcer
MaxCalls == 3
\* longest list of validation steps an enforcer keeps
MaxSteps == 4

\* longest model_numbers list passed to compare_models
MaxModels == 3
\* most table entries (section, category, subcategory, value, unit) per document
MaxSpecs == 2

(***************************************************************************)
(* Python str helpers                                                      *)
(***************************************************************************)
None == <<>>
Some(s) == <<s>>

Char(s, k) == SubSeq(s, k, k)

Whitespace == {" ", "\t", "\n", "\r", "\f"}

RECURSIVE lstrip(_)
lstrip(s) ==
    IF Len(s) > 0 /\ Char(s, 1) \in Whitespace
    THEN lstrip(SubSeq(s, 2, Len(s)))
    ELSE s

RECURSIVE rstrip(_)
rstrip(s) ==
    IF Len(s) > 0 /\ Char(s, Len(s)) \in Whitespace
    THEN rstrip(SubSeq(s, 1, Len(s) - 1))
    ELSE s

\* str.strip()
strip(s) == rstrip(lstrip(s))

\* str.startswith(c) for a one-character prefix
startswith(s, c) == Len(s) > 0 /\ Char(s, 1) = c

RECURSIVE SplitFrom(_, _, _, _)
SplitFrom(s, sep, start, k) ==
    IF k > Len(s) THEN << SubSeq(s, start, Len(s)) >>
    ELSE IF Char(s, k) = sep
         THEN << SubSeq(s, start, k - 1) >> \o SplitFrom(s, sep, k + 1, k + 1)
         ELSE SplitFrom(s, sep, start, k + 1)

\* str.split(sep) for a one-character separator
split(s, sep) == SplitFrom(s, sep, 1, 1)

RECURSIVE join(_, _)
\* sep.join(parts)
join(sep, parts) ==
    IF Len(parts) = 0 THEN ""
    ELSE IF Len(parts) = 1 THEN parts[1]
    ELSE parts[1] \o sep \o join(sep, Tail(parts))

Digits == <<"0", "1", "2", "3", "4", "5", "6", "7", "8", "9">>

IsDigitChar(c) == \E d \in 1..10 : Digits[d] = c

DigitValue(c) == (CHOOSE d \in 1..10 : Digits[d] = c) - 1

\* str.isdigit(): non-empty and every character a digit (ASCII text)
isdigit(s) == Len(s) > 0 /\ \A k \in 1..Len(s) : IsDigitChar(Char(s, k))

\* position of the first occurrence of character c in s, 0 when there is none
FirstIndexOf(s, c) ==
    IF \E k \in 1..Len(s) : Char(s, k) = c
    THEN CHOOSE k \in 1..Len(s) :
            Char(s, k) = c /\ \A j \in 1..(k - 1) : Char(s, j) # c
    ELSE 0

\* s.replace(c, '', 1): drop the first occurrence of c
replace_first(s, c) ==
    LET p == FirstIndexOf(s, c)
    IN  IF p = 0 THEN s ELSE SubSeq(s, 1, p - 1) \o SubSeq(s, p + 1, Len(s))

RECURSIVE Pow10(_)
Pow10(n) == IF n = 0 THEN 1 ELSE 10 * Pow10(n - 1)

RECURSIVE DigitsToNat(_)
DigitsToNat(s) ==
    IF Len(s) = 0 THEN 0
    ELSE 10 * DigitsToNat(SubSeq(s, 1, Len(s) - 1)) + DigitValue(Char(s, Len(s)))

RECURSIVE NatToDigits(_)
NatToDigits(n) ==
    IF n < 10 THEN Digits[n + 1]
    ELSE NatToDigits(n \div 10) \o Digits[(n % 10) + 1]

(***************************************************************************)
(* float(s) for a string of digits with at most one '.': the exact decimal *)
(* n / 10^f, kept as [n, f].  Short decimal strings are compared and       *)
(* printed by Python exactly as their decimal value.                       *)
(***************************************************************************)
float(s) ==
    LET p == FirstIndexOf(s, ".")
    IN  IF p = 0 THEN [n |-> DigitsToNat(s), f |-> 0]
        ELSE [n |-> DigitsToNat(replace_first(s, ".")), f |-> Len(s) - p]

FloatLess(a, b) == a.n * Pow10(b.f) < b.n * Pow10(a.f)
FloatEq(a, b) == a.n * Pow10(b.f) = b.n * Pow10(a.f)

RECURSIVE StripTrailingZeros(_)
StripTrailingZeros(s) ==
    IF Len(s) > 1 /\ Char(s, Len(s)) = "0"
    THEN StripTrailingZeros(SubSeq(s, 1, Len(s) - 1))
    ELSE s

RECURSIVE ZeroPad(_, _)
ZeroPad(s, width) == IF Len(s) >= width THEN s ELSE ZeroPad("0" \o s, width)

\* str(x) of a float inside an f-string: "30.0", "2.5", "0.5"
\* (values below 1e16 and not below 1e-4, where Python prints plain decimals)
float_str(x) ==
    LET ip == x.n \div Pow10(x.f)
        fp == x.n % Pow10(x.f)
    IN  NatToDigits(ip) \o "." \o
        (IF x.f = 0 THEN "0" ELSE StripTrailingZeros(ZeroPad(NatToDigits(fp), x.f)))

(***************************************************************************)
(* Python dict helpers (insertion ordered)                                 *)
(***************************************************************************)
EmptyDict == <<>>

Keys(d) == { d[k].k : k \in 1..Len(d) }

KeyList(d) == [ k \in 1..Len(d) |-> d[k].k ]

Has(d, key) == \E k \in 1..Len(d) : d[k].k = key

Get(d, key) == d[CHOOSE k \in 1..Len(d) : d[k].k = key].v

\* d[key] = val: replaces the value in place, or appends a new key
Put(d, key, val) ==
    IF Has(d, key)
    THEN [ k \in 1..Len(d) |-> IF d[k].k = key THEN [k |-> key, v |-> val] ELSE d[k] ]
    ELSE Append(d, [k |-> key, v |-> val])

(***************************************************************************)
(* types/pdf.py, tools/transformers.py                                     *)
(***************************************************************************)
\* UnitTransformer.format_display_value(value, unit)
format_display_value(value, unit) ==
    IF unit = None \/ unit = Some("") THEN value
    ELSE value \o " " \o unit[1]

\* PDFSpecification(unit=..., value=...)
PDFSpecification(unit, value) == [unit |-> unit, value |-> value]

\* PDFSpecification.display_value (computed field)
display_value(spec) == format_display_value(spec.value, spec.unit)

\* PDFContent.get_specification: Some(spec), or None on a missing key
get_specification(content, section, category, subcategory) ==
    IF /\ Has(content.sections, section)
       /\ Has(Get(content.sections, section), category)
       /\ Has(Get(Get(content.sections, section), category), subcategory)
    THEN Some(Get(Get(Get(content.sections, section), category), subcategory))
    ELSE None

(***************************************************************************)
(* tools/pdf_processor.py: locating a file and naming its model            *)
(***************************************************************************)
LowerLetters == "abcdefghijklmnopqrstuvwxyz"
UpperLetters == "ABCDEFGHIJKLMNOPQRSTUVWXYZ"

\* each lower-case letter with its upper-case letter
ToUpper ==
    [ c \in { Char(LowerLetters, k) : k \in 1..26 } |->
        Char(UpperLetters, CHOOSE k \in 1..26 : Char(LowerLetters, k) = c) ]

UpperChar(c) == IF c \in DOMAIN ToUpper THEN ToUpper[c] ELSE c

RECURSIVE upper(_)
\* str.upper()
upper(s) == IF Len(s) = 0 THEN "" ELSE UpperChar(Char(s, 1)) \o upper(SubSeq(s, 2, Len(s)))

\* each upper-case letter with its lower-case letter
ToLower ==
    [ c \in { Char(UpperLetters, k) : k \in 1..26 } |->
        Char(LowerLetters, CHOOSE k \in 1..26 : Char(UpperLetters, k) = c) ]

LowerChar(c) == IF c \in DOMAIN ToLower THEN ToLower[c] ELSE c

RECURSIVE lower(_)
\* str.lower()
lower(s) == IF Len(s) = 0 THEN "" ELSE LowerChar(Char(s, 1)) \o lower(SubSeq(s, 2, Len(s)))

\* sub in s
contains(s, sub) ==
    \E p \in 1..(Len(s) - Len(sub) + 1) : SubSeq(s, p, p + Len(sub) - 1) = sub

RECURSIVE DigitRunEnd(_, _)
\* last position of the run of digits that starts at p (p - 1 when there is none)
DigitRunEnd(s, p) ==
    IF p <= Len(s) /\ IsDigitChar(Char(s, p)) THEN DigitRunEnd(s, p + 1) ELSE p - 1

\* \d+[RFW]? (ignoring case) matched greedily at position p: its end, 0 when no match
ModelTokenEnd(s, p) ==
    LET e == DigitRunEnd(s, p)
    IN  IF e < p THEN 0
        ELSE IF e < Len(s) /\ UpperChar(Char(s, e + 1)) \in {"R", "F", "W"} THEN e + 1
        ELSE e

\* group(1) of HSR-?(\d+[RFW]?) matched at position p, None when it does not match there
HsrMatchAt(s, p) ==
    IF p + 2 > Len(s) \/ upper(SubSeq(s, p, p + 2)) # "HSR" THEN None
    ELSE LET d == IF p + 3 <= Len(s) /\ Char(s, p + 3) = "-" /\ ModelTokenEnd(s, p + 4) # 0
                  THEN p + 4 ELSE p + 3
         IN  IF ModelTokenEnd(s, d) = 0 THEN None
             ELSE Some(SubSeq(s, d, ModelTokenEnd(s, d)))

RECURSIVE SplitNameFrom(_, _, _)
\* re.split(r'[_\s]', s)
SplitNameFrom(s, start, k) ==
    IF k > Len(s) THEN << SubSeq(s, start, Len(s)) >>
    ELSE IF Char(s, k) = "_" \/ Char(s, k) \in Whitespace
         THEN << SubSeq(s, start, k - 1) >> \o SplitNameFrom(s, k + 1, k + 1)
         ELSE SplitNameFrom(s, start, k + 1)

\* PDFProcessor._extract_model_name applied to the stem of the file name
extract_model_name(base_name) ==
    LET hsr == { p \in 1..Len(base_name) : HsrMatchAt(base_name, p) # None }
        parts == SplitNameFrom(base_name, 1, 1)
        hits == { k \in 1..Len(parts) :
                    Len(parts[k]) > 0 /\ ModelTokenEnd(parts[k], 1) = Len(parts[k]) }
    IN  IF hsr # {}
        THEN Some(upper(HsrMatchAt(base_name, CHOOSE p \in hsr : \A q \in hsr : p <= q)[1]))
        ELSE IF hits # {}
        THEN Some(upper(parts[CHOOSE k \in hits : \A j \in hits : k <= j]))
        ELSE IF isdigit(base_name) THEN Some(base_name)
        ELSE None

(***************************************************************************)
(* PDFProcessor.get_content.  pdf_dir lists the PDF files in glob order;   *)
(* each file is [stem, readable, sections]: whether _extract_content       *)
(* succeeds on it and the section map it then builds.  A PDFSection is     *)
(* modelled by its categories dict, a PDFCategory by its subcategories     *)
(* dict.                                                                   *)
(***************************************************************************)
PDFContent(model_number, sections) == [model_number |-> model_number, sections |-> sections]

Raised == [ok |-> FALSE, content |-> PDFContent(None, EmptyDict)]

\* the files of pdf_dir, in glob order
PdfStems == << "HSR-520R", "HSR-980F", "test_model" >>

\* the identifiers a caller may ask for
RequestIds == { "520R", "980F", "test_model", "HSR-520R" }

\* for pdf_file in glob("*.pdf"): if path.stem.upper() in pdf_file.stem.upper(): break
\* the index of the first matching file, 0 when none matches
find_pdf(model_or_path) ==
    LET hits == { k \in 1..Len(PdfStems) :
                    contains(upper(PdfStems[k]), upper(model_or_path)) }
    IN  IF hits = {} THEN 0 ELSE CHOOSE k \in hits : \A j \in hits : k <= j

\* find_pdf and _extract_model_name tabulated over the identifiers and files
FoundPdf == [ id \in RequestIds |-> find_pdf(id) ]
ModelNumberOf == [ k \in 1..Len(PdfStems) |-> extract_model_name(PdfStems[k]) ]

get_content(dir, model_or_path) ==
    IF FoundPdf[model_or_path] = 0 THEN Raised
    ELSE IF ~dir[FoundPdf[model_or_path]].readable THEN Raised
    ELSE [ok |-> TRUE,
          content |-> PDFContent(ModelNumberOf[FoundPdf[model_or_path]],
                                 dir[FoundPdf[model_or_path]].sections)]

(***************************************************************************)
(* CompareProcessor._process_feature_type                                  *)
(***************************************************************************)
RECURSIVE StripAll(_)
StripAll(lines) ==
    IF Len(lines) = 0 THEN <<>> ELSE << strip(Head(lines)) >> \o StripAll(Tail(lines))

NonEmpty(line) == line # ""

\* [line.strip() for line in value.split('\n') if line.strip()]
feature_lines(value) == SelectSeq(StripAll(split(value, "\n")), NonEmpty)

FlushItem(processed_items, current_item) ==
    IF current_item # "" THEN Append(processed_items, current_item) ELSE processed_items

\* every line taken as an item of its own
assemble_items_unjoined(lines, processed_items, current_item) ==
    FlushItem(processed_items, current_item) \o lines

RECURSIVE assemble_items(_, _, _)
\* the loop over lines that re-joins wrapped bullet points, and the final flush
assemble_items(lines, processed_items, current_item) ==
    IF Len(lines) = 0 THEN FlushItem(processed_items, current_item)
    ELSE LET line == Head(lines)
         IN  IF startswith(line, "*") \/ startswith(line, "-")
             THEN assemble_items(Tail(lines), FlushItem(processed_items, current_item), line)
             ELSE assemble_items(Tail(lines), processed_items,
                                 IF current_item # "" THEN current_item \o " " \o line
                                 ELSE line)

processed_items(value) == assemble_items(feature_lines(value), <<>>, "")

Range(seq) == { seq[k] : k \in 1..Len(seq) }

\* ComparisonFeature(text=item, models={name: name == model_name for name in model_numbers})
ComparisonFeature(item, model_name, model_numbers) ==
    [text |-> item, models |-> [name \in Range(model_numbers) |-> name = model_name]]

\* the flags of the existing entry rebuilt for the current model alone
mark_feature_rebuilt(features, item, model_name) ==
    LET first == CHOOSE k \in 1..Len(features) :
                    features[k].text = item /\ \A j \in 1..(k - 1) : features[j].text # item
    IN  [features EXCEPT ![first].models =
            [name \in DOMAIN features[first].models |-> name = model_name]]

\* for feature in features: if feature.text == item: feature.models[model_name] = True; break
mark_feature(features, item, model_name) ==
    LET first == CHOOSE k \in 1..Len(features) :
                    features[k].text = item /\ \A j \in 1..(k - 1) : features[j].text # item
    IN  [features EXCEPT ![first].models[model_name] = TRUE]

\* every item appended, none remembered as seen
merge_item_append(acc, item, model_name, model_numbers) ==
    [features |-> Append(acc.features,
                         ComparisonFeature(item, model_name, model_numbers)),
     seen_texts |-> acc.seen_texts]

\* "Create or update features" for one item; acc = [features, seen_texts]
merge_item(acc, item, model_name, model_numbers) ==
    IF item \in acc.seen_texts
    THEN [acc EXCEPT !.features = mark_feature(@, item, model_name)]
    ELSE [features |-> Append(acc.features,
                              ComparisonFeature(item, model_name, model_numbers)),
          seen_texts |-> acc.seen_texts \cup {item}]

RECURSIVE merge_items(_, _, _, _)
\* for item in processed_items: ...
merge_items(items, model_name, model_numbers, acc) ==
    IF Len(items) = 0 THEN acc
    ELSE merge_items(Tail(items), model_name, model_numbers,
                     merge_item(acc, Head(items), model_name, model_numbers))

\* the text a model contributes for feature_type, "" when one of the guards skips it
feature_text(models, model_name, feature_type) ==
    IF ~Has(models, model_name) THEN ""
    ELSE LET spec == get_specification(Get(models, model_name),
                                       "Features_And_Advantages", feature_type, "")
         IN  IF spec = None THEN "" ELSE spec[1].value

RECURSIVE feature_loop(_, _, _, _, _)
feature_loop(models, model_numbers, feature_type, k, acc) ==
    IF k > Len(model_numbers) THEN acc.features
    ELSE feature_loop(models, model_numbers, feature_type, k + 1,
            merge_items(processed_items(feature_text(models, model_numbers[k], feature_type)),
                        model_numbers[k], model_numbers, acc))

process_feature_type(models, model_numbers, feature_type) ==
    feature_loop(models, model_numbers, feature_type, 1,
                 [features |-> <<>>, seen_texts |-> {}])

(***************************************************************************)
(* CompareProcessor._process_specifications                                *)
(***************************************************************************)
\* only the features section skipped
SkippedSections_features_only == {"Features_And_Advantages"}

\* if section_name in ["Features_And_Advantages", "Diagram"]: continue
SkippedSections == {"Features_And_Advantages", "Diagram"}

RECURSIVE Concat(_)
Concat(seqs) == IF Len(seqs) = 0 THEN <<>> ELSE Head(seqs) \o Concat(Tail(seqs))

\* the (section, category, subcategory) combinations of one model, in the order
\* the nested loops over sections, categories and subcategories visit them
model_combinations(content) ==
    Concat([ s \in 1..Len(content.sections) |->
        IF content.sections[s].k \in SkippedSections THEN <<>>
        ELSE Concat([ c \in 1..Len(content.sections[s].v) |->
                [ n \in 1..Len(content.sections[s].v[c].v) |->
                    << content.sections[s].k,
                       content.sections[s].v[c].k,
                       content.sections[s].v[c].v[n].k >> ] ]) ])

\* the section names of one model for which a result list is initialised
model_sections(content) ==
    SelectSeq(KeyList(content.sections), LAMBDA name : name \notin SkippedSections)

RECURSIVE add_unseen(_, _)
\* if combination not in seen_combinations: spec_combinations.append(combination)
add_unseen(spec_combinations, found) ==
    IF Len(found) = 0 THEN spec_combinations
    ELSE add_unseen(IF Head(found) \in Range(spec_combinations) THEN spec_combinations
                    ELSE Append(spec_combinations, Head(found)),
                    Tail(found))

RECURSIVE init_sections(_, _)
\* if section_name not in sections: sections[section_name] = []
init_sections(sections, names) ==
    IF Len(names) = 0 THEN sections
    ELSE init_sections(IF Has(sections, Head(names)) THEN sections
                       ELSE Put(sections, Head(names), <<>>),
                       Tail(names))

RECURSIVE collect_combinations(_, _, _, _)
\* "Process regular sections first": acc = [sections, spec_combinations]
collect_combinations(models, model_numbers, k, acc) ==
    IF k > Len(model_numbers) THEN acc
    ELSE collect_combinations(models, model_numbers, k + 1,
            IF ~Has(models, model_numbers[k]) THEN acc
            ELSE [sections |-> init_sections(acc.sections,
                                  model_sections(Get(models, model_numbers[k]))),
                  spec_combinations |-> add_unseen(acc.spec_combinations,
                                  model_combinations(Get(models, model_numbers[k])))])

\* the display value copied from the raw value, unit left out
SpecificationValue_value_only(spec) ==
    [value |-> spec.value, unit |-> spec.unit, display_value |-> spec.value]

\* SpecificationValue(value=..., unit=..., display_value=...)
SpecificationValue(spec) ==
    [value |-> spec.value, unit |-> spec.unit, display_value |-> display_value(spec)]

\* a model lacking the specification entered with an empty value
add_value_null(acc, name, spec) ==
    IF spec = None
    THEN [acc EXCEPT !.values = Put(@, name, [value |-> "", unit |-> None,
                                              display_value |-> ""])]
    ELSE IF Len(spec[1].value) < 1 THEN [acc EXCEPT !.raised = TRUE]
    ELSE [acc EXCEPT !.values =
             Put(@, name, [value |-> spec[1].value, unit |-> spec[1].unit,
                           display_value |-> display_value(spec[1])])]

\* SpecificationValue.value has min_length=1
SpecificationValueValid(spec) == Len(spec.value) >= 1

\* CompareProcessor._get_spec_value
get_spec_value(content, section_name, category_name, spec_name) ==
    get_specification(content, section_name, category_name, spec_name)

\* if spec: values[name] = SpecificationValue(...); acc = [values, raised]
add_value(acc, name, spec) ==
    IF spec = None THEN acc
    ELSE IF ~SpecificationValueValid(spec[1]) THEN [acc EXCEPT !.raised = TRUE]
    ELSE [acc EXCEPT !.values = Put(@, name, SpecificationValue(spec[1]))]

RECURSIVE collect_values(_, _, _, _, _)
\* the loop filling values for one combination; acc = [values, raised]
collect_values(models, model_numbers, combination, k, acc) ==
    IF k > Len(model_numbers) \/ acc.raised THEN acc
    ELSE collect_values(models, model_numbers, combination, k + 1,
            IF ~Has(models, model_numbers[k]) THEN acc
            ELSE LET spec == get_spec_value(Get(models, model_numbers[k]),
                                 combination[1], combination[2], combination[3])
                 IN  add_value(acc, model_numbers[k], spec))

\* a comparison of the displayed text (value with unit) instead of the raw value
unique_values_displayed(values) == { values[k].v.display_value : k \in 1..Len(values) }

\* {v.value for v in values.values()}
unique_values(values) == { values[k].v.value : k \in 1..Len(values) }

\* digits only, no decimal point taken out
is_numeric_integers(value) == isdigit(value)

\* v.value.replace('.', '', 1).isdigit()
is_numeric(value) == isdigit(replace_first(value, "."))

\* the first key, whatever its value
extreme_first(values) == values[1].k

\* max(values.items(), key=lambda x: abs(float(x[1].value)))[0]: the first key
\* whose value no other value exceeds
extreme_of(values) ==
    values[CHOOSE k \in 1..Len(values) :
        /\ \A j \in 1..Len(values) :
              ~FloatLess(float(values[k].v.value), float(values[j].v.value))
        /\ \A j \in 1..(k - 1) :
              FloatLess(float(values[j].v.value), float(values[k].v.value))].k

RECURSIVE float_max(_)
\* max(all_values) over floats
float_max(xs) ==
    IF Len(xs) = 1 THEN xs[1]
    ELSE LET m == float_max(SubSeq(xs, 1, Len(xs) - 1))
         IN  IF FloatLess(m, xs[Len(xs)]) THEN xs[Len(xs)] ELSE m

RECURSIVE float_min(_)
\* min(all_values) over floats
float_min(xs) ==
    IF Len(xs) = 1 THEN xs[1]
    ELSE LET m == float_min(SubSeq(xs, 1, Len(xs) - 1))
         IN  IF FloatLess(xs[Len(xs)], m) THEN xs[Len(xs)] ELSE m

\* the last key instead of the first
last_model(values) == values[Len(values)].k

\* next(iter(values.keys()))
first_model(values) == values[1].k

\* {k: v.value for k, v in values.items()}
raw_values(values) == [ k \in 1..Len(values) |-> [k |-> values[k].k, v |-> values[k].v.value] ]

\* Difference(...) for a combination whose values differ
Difference(combination, values) ==
    LET numeric == \A k \in 1..Len(values) : is_numeric(values[k].v.value)
        all_values == [ k \in 1..Len(values) |-> float(values[k].v.value) ]
        extreme_model == IF numeric THEN extreme_of(values) ELSE first_model(values)
        other_values == [ k \in 1..Len(SelectSeq(values, LAMBDA e : e.k # extreme_model)) |->
                            SelectSeq(values, LAMBDA e : e.k # extreme_model)[k].v.value ]
        difference_desc ==
            IF numeric
            THEN "Value of " \o float_str(float_max(all_values)) \o " vs "
                    \o float_str(float_min(all_values))
            ELSE "Value of " \o Get(values, extreme_model).value \o " vs "
                    \o join(", ", other_values)
    IN  [model |-> extreme_model,
         category |-> combination[1],
         subcategory |-> combination[2],
         specification |-> combination[3],
         difference |-> difference_desc,
         unit |-> values[1].v.unit,
         values |-> raw_values(values)]

\* ComparisonSpecification(category, specification, values, has_differences)
ComparisonSpecification(combination, values) ==
    [category |-> combination[2],
     specification |-> combination[3],
     values |-> values,
     has_differences |-> Cardinality(unique_values(values)) > 1]

\* a Difference appended without the has_differences guard
add_difference_unguarded(diffs, spec, combination, values) ==
    Append(diffs, Difference(combination, values))

\* if has_differences: differences.append(Difference(...))
add_difference(diffs, spec, combination, values) ==
    IF spec.has_differences THEN Append(diffs, Difference(combination, values)) ELSE diffs

RECURSIVE compare_combinations(_, _, _, _)
\* "Process each combination": acc = [sections, differences, raised]
compare_combinations(models, model_numbers, spec_combinations, acc) ==
    IF Len(spec_combinations) = 0 \/ acc.raised THEN acc
    ELSE LET combination == Head(spec_combinations)
             got == collect_values(models, model_numbers, combination, 1,
                                   [values |-> EmptyDict, raised |-> FALSE])
             values == got.values
             spec == ComparisonSpecification(combination, values)
         IN  compare_combinations(models, model_numbers, Tail(spec_combinations),
                IF got.raised THEN [acc EXCEPT !.raised = TRUE]
                ELSE IF Len(values) = 0 THEN acc
                ELSE [sections |-> Put(acc.sections, combination[1],
                                       Append(Get(acc.sections, combination[1]), spec)),
                      differences |-> add_difference(acc.differences, spec,
                                                     combination, values),
                      raised |-> FALSE])

\* returns [sections, differences, raised]; raised when pydantic rejects a value
process_specifications(models, model_numbers) ==
    LET found == collect_combinations(models, model_numbers, 1,
                    [sections |-> EmptyDict, spec_combinations |-> <<>>])
    IN  compare_combinations(models, model_numbers, found.spec_combinations,
            [sections |-> found.sections, differences |-> <<>>, raised |-> FALSE])

(***************************************************************************)
(* CompareProcessor.compare_models: building the response                  *)
(***************************************************************************)
RECURSIVE group_by_category(_, _)
\* "Group specifications by category"
group_by_category(specs, categories) ==
    IF Len(specs) = 0 THEN categories
    ELSE group_by_category(Tail(specs),
            Put(categories, Head(specs).category,
                Append(IF Has(categories, Head(specs).category)
                       THEN Get(categories, Head(specs).category) ELSE <<>>,
                       Head(specs))))

RECURSIVE add_specification_sections(_, _)
\* "Add specification sections"
add_specification_sections(response_sections, secs) ==
    IF Len(secs) = 0 THEN response_sections
    ELSE add_specification_sections(
            Put(response_sections, Head(secs).k, group_by_category(Head(secs).v, EmptyDict)),
            Tail(secs))

\* the section added whether or not the lists are empty
features_section_always(feats, advs) ==
    Put(EmptyDict, "Features_And_Advantages",
        << [k |-> "features", v |-> feats], [k |-> "advantages", v |-> advs] >>)

\* "Add Features_And_Advantages section ONLY if there are actual features or advantages"
features_section(feats, advs) ==
    IF Len(feats) = 0 /\ Len(advs) = 0 THEN EmptyDict
    ELSE Put(EmptyDict, "Features_And_Advantages",
             (IF Len(feats) > 0 THEN Put(EmptyDict, "features", feats) ELSE EmptyDict)
             \o (IF Len(advs) > 0 THEN << [k |-> "advantages", v |-> advs] >> ELSE <<>>))

NoResponse ==
    [kind |-> "none", model_numbers |-> <<>>, sections |-> EmptyDict, differences_count |-> 0]

\* ComparisonResponse(...): model_numbers has min_length=2, otherwise pydantic raises
ComparisonResponse(numbers, secs, count) ==
    IF Len(numbers) >= 2
    THEN [kind |-> "response", model_numbers |-> numbers,
          sections |-> secs, differences_count |-> count]
    ELSE [NoResponse EXCEPT !.kind = "ValidationError"]

\* model_name = result.model_number or model_num; models[model_name] = result
store_model(ms, model_num, content) ==
    Put(ms,
        IF content.model_number \in {None, Some("")} THEN model_num
        ELSE content.model_number[1],
        content)

RECURSIVE collect_model_data(_, _, _, _)
\* CompareProcessor._collect_model_data: the loop from its k-th iteration on
collect_model_data(dir, numbers, k, ms) ==
    IF k > Len(numbers) THEN ms
    ELSE collect_model_data(dir, numbers, k + 1,
            IF get_content(dir, numbers[k]).ok
            THEN store_model(ms, numbers[k], get_content(dir, numbers[k]).content)
            ELSE ms)

\* CompareProcessor.compare_models as a function of the directory and the request
compare_models(dir, numbers) ==
    LET ms == collect_model_data(dir, numbers, 1, EmptyDict)
        result == process_specifications(ms, numbers)
    IN  IF Len(ms) = 0 THEN ComparisonResponse(numbers, EmptyDict, 0)
        ELSE IF result.raised THEN [NoResponse EXCEPT !.kind = "ValidationError"]
        ELSE ComparisonResponse(numbers,
                add_specification_sections(
                    features_section(process_feature_type(ms, numbers, "features"),
                                     process_feature_type(ms, numbers, "advantages")),
                    result.sections),
                Len(result.differences))

(***************************************************************************)
(* tools/transformers.py: UnitTransformer.standardize_unit                 *)
(***************************************************************************)
\* STANDARD_UNITS, key -> display, by the groups of the source
TemperatureUnits == << [k |-> "^C", v |-> "^C"], [k |-> "^F", v |-> "^F"] >>

ResistanceUnits ==
    << [k |-> "ohm", v |-> "@"], [k |-> "ohms", v |-> "@"],
       [k |-> "Ohm", v |-> "@"], [k |-> "Ohms", v |-> "@"] >>

\* the display of "V" given in the long form
VoltageUnits_long_display ==
    << [k |-> "V", v |-> "Volts"], [k |-> "VDC", v |-> "VDC"],
       [k |-> "VAC", v |-> "VAC"], [k |-> "Volts", v |-> "V"] >>

VoltageUnits ==
    << [k |-> "V", v |-> "V"], [k |-> "VDC", v |-> "VDC"],
       [k |-> "VAC", v |-> "VAC"], [k |-> "Volts", v |-> "V"] >>

CurrentUnits ==
    << [k |-> "A", v |-> "A"], [k |-> "Amp", v |-> "A"],
       [k |-> "Amps", v |-> "A"], [k |-> "mA", v |-> "mA"] >>

PowerUnits ==
    << [k |-> "W", v |-> "W"], [k |-> "Watt", v |-> "W"], [k |-> "Watts", v |-> "W"] >>

TimeUnits ==
    << [k |-> "ms", v |-> "ms"], [k |-> "msec", v |-> "ms"],
       [k |-> "msecs", v |-> "ms"], [k |-> "mSeconds", v |-> "ms"],
       [k |-> "millisecond", v |-> "ms"], [k |-> "milliseconds", v |-> "ms"],
       [k |-> "Milliseconds", v |-> "ms"], [k |-> "MILLISECONDS", v |-> "ms"] >>

VolumeUnits ==
    << [k |-> "CC", v |-> "cc"], [k |-> "cc", v |-> "cc"],
       [k |-> "cubic centimeter", v |-> "cc"], [k |-> "cubic centimeters", v |-> "cc"],
       [k |-> "CUBIC CENTIMETERS", v |-> "cc"], [k |-> "Cubic Centimeters", v |-> "cc"],
       [k |-> "Cubic centimeters", v |-> "cc"] >>

CapacitanceUnits ==
    << [k |-> "pF", v |-> "pF"], [k |-> "picofarad", v |-> "pF"],
       [k |-> "picofarads", v |-> "pF"] >>

InductanceUnits ==
    << [k |-> "mH", v |-> "mH"], [k |-> "millihenry", v |-> "mH"],
       [k |-> "millihenries", v |-> "mH"] >>

MagneticUnits ==
    << [k |-> "AT", v |-> "AT"], [k |-> "Ampere Turn", v |-> "AT"],
       [k |-> "Ampere Turns", v |-> "AT"], [k |-> "ampere turn", v |-> "AT"],
       [k |-> "ampere turns", v |-> "AT"], [k |-> "AMPERE TURNS", v |-> "AT"] >>

STANDARD_UNITS ==
    TemperatureUnits \o ResistanceUnits \o VoltageUnits \o CurrentUnits \o PowerUnits
    \o TimeUnits \o VolumeUnits \o CapacitanceUnits \o InductanceUnits \o MagneticUnits

\* str.capitalize()
capitalize(s) ==
    IF Len(s) = 0 THEN "" ELSE UpperChar(Char(s, 1)) \o lower(SubSeq(s, 2, Len(s)))

IsLetter(c) == c \in DOMAIN ToLower \/ c \in DOMAIN ToUpper

RECURSIVE TitleFrom(_, _)
TitleFrom(s, after_letter) ==
    IF Len(s) = 0 THEN ""
    ELSE (IF after_letter THEN LowerChar(Char(s, 1)) ELSE UpperChar(Char(s, 1)))
         \o TitleFrom(SubSeq(s, 2, Len(s)), IsLetter(Char(s, 1)))

\* str.title()
title(s) == TitleFrom(s, FALSE)

\* [p.strip() for p in unit.split("-", 1)]
unit_parts(unit) ==
    LET p == FirstIndexOf(unit, "-")
    IN  IF p = 0 THEN << strip(unit) >>
        ELSE << strip(SubSeq(unit, 1, p - 1)), strip(SubSeq(unit, p + 1, Len(unit))) >>

\* "Try all case variations"
variations(base_unit) ==
    << base_unit, lower(base_unit), upper(base_unit),
       capitalize(base_unit), title(base_unit) >>

\* the loop over variations: the display of the first variant in the table
find_standard(base_unit) ==
    LET variants == variations(base_unit)
        hits == { k \in 1..5 : Has(STANDARD_UNITS, variants[k]) }
    IN  IF hits = {} THEN None
        ELSE Some(Get(STANDARD_UNITS,
                      variants[CHOOSE k \in hits : \A j \in hits : k <= j]))

StandardSuffixes == { "maximum", "minimum", "nominal", "typical" }

\* every suffix kept as it is
format_with_suffix_verbatim(display, suffix) ==
    IF suffix # None /\ suffix # Some("") THEN display \o " - " \o suffix[1] ELSE display

\* "Step 3: Format with standardized suffix"
format_with_suffix(display, suffix) ==
    IF suffix # None /\ suffix # Some("")
    THEN IF lower(suffix[1]) \in StandardSuffixes
         THEN display \o " - " \o SubSeq(lower(suffix[1]), 1, 3)
         ELSE display \o " - " \o suffix[1]
    ELSE display

\* nothing returned for an unknown unit
unmatched_unit_none(unit) == None

\* "If still no match, return original"
unmatched_unit(unit) == unit

\* UnitTransformer.standardize_unit(unit), unit and result Optional[str]
standardize_unit(unit) ==
    IF unit = None \/ unit = Some("") THEN None
    ELSE LET parts == unit_parts(unit[1])
             base_unit == strip(parts[1])
             suffix == IF Len(parts) > 1 THEN Some(strip(parts[2])) ELSE None
             standard == find_standard(base_unit)
         IN  IF standard = None THEN unmatched_unit(unit)
             ELSE Some(format_with_suffix(standard[1], suffix))

(***************************************************************************)
(* tools/pdf_processor.py: PDFProcessor._parse_table_to_specs              *)
(***************************************************************************)
\* section_patterns
Physical == "physical/operational specifications"

ElectricalTerms ==
    << "power", "voltage", "current", "resistance", "capacitance",
       "temperature", "electrical" >>

\* the keyword written without the blanks around the hyphen
MagneticTerms_hyphenated == << "pull-in", "test coil", "magnetic" >>

MagneticTerms == << "pull - in", "test coil", "magnetic" >>

PhysicalTerms ==
    << "capsule", "contact material", "operate time", "release time",
       "physical", "operational" >>

\* any(term in category_lower for term in terms)
any_term_in(terms, category_lower) ==
    \E k \in 1..Len(terms) : contains(category_lower, terms[k])

\* an unmatched category always sent to the first section
get_section_for_category_first(category, current_section) ==
    LET category_lower == lower(category)
    IN  IF any_term_in(ElectricalTerms, category_lower) THEN "electrical specifications"
        ELSE IF any_term_in(MagneticTerms, category_lower) THEN "magnetic specifications"
        ELSE IF any_term_in(PhysicalTerms, category_lower) THEN Physical
        ELSE "electrical specifications"

\* get_section_for_category, current_section being the enclosing function's variable
get_section_for_category(category, current_section) ==
    LET category_lower == lower(category)
    IN  IF any_term_in(ElectricalTerms, category_lower) THEN "electrical specifications"
        ELSE IF any_term_in(MagneticTerms, category_lower) THEN "magnetic specifications"
        ELSE IF any_term_in(PhysicalTerms, category_lower) THEN Physical
        ELSE IF current_section # None /\ current_section # Some("")
        THEN current_section[1]
        ELSE "electrical specifications"

\* [str(cell).strip() if cell else "" for cell in row]
clean_row(row) == [ k \in 1..Len(row) |-> strip(row[k]) ]

\* any(cells)
any_cell(cells) == \E k \in 1..Len(cells) : cells[k] # ""

\* specs[section_name] and specs[section_name][category] created when missing
register_category(specs, section_name, category) ==
    LET with_section == IF Has(specs, section_name) THEN specs
                        ELSE Put(specs, section_name, EmptyDict)
    IN  IF Has(Get(with_section, section_name), category) THEN with_section
        ELSE Put(with_section, section_name,
                 Put(Get(with_section, section_name), category, EmptyDict))

\* specs[current_section][category][subcategory] = spec
store_spec(specs, current_section, category, subcategory, spec) ==
    Put(specs, current_section,
        Put(Get(specs, current_section), category,
            Put(Get(Get(specs, current_section), category), subcategory, spec)))

\* the row's category cell alone, nothing carried from earlier rows
row_category_own(row_data, current_category) ==
    IF row_data[1] # "" THEN Some(row_data[1]) ELSE None

\* category = row_data[0] if row_data[0] else current_category
row_category(row_data, current_category) ==
    IF row_data[1] # "" THEN Some(row_data[1]) ELSE current_category

\* a row without a value column left out altogether
process_row_short_ignored(acc, row) ==
    LET row_data == clean_row(row)
        category == row_category(row_data, acc.current_category)
        subcategory == IF Len(row_data) > 1 /\ row_data[2] # "" THEN row_data[2] ELSE ""
        section_name == get_section_for_category(category[1], acc.current_section)
        named == IF category # None
                 THEN [specs |-> register_category(acc.specs, section_name, category[1]),
                       current_category |-> category,
                       current_section |-> Some(section_name)]
                 ELSE acc
        unit == standardize_unit(IF row_data[3] # "" THEN Some(strip(row_data[3])) ELSE None)
        value == strip(row_data[4])
    IN  IF ~any_cell(row_data) THEN acc
        ELSE IF Len(row_data) > 3 /\ category # None /\ named.current_section # None
        THEN [named EXCEPT !.specs = store_spec(@, named.current_section[1], category[1],
                                                subcategory, PDFSpecification(unit, value))]
        ELSE acc

\* one iteration of "for row in rows_to_process";
\* acc = [specs, current_category, current_section]
process_row(acc, row) ==
    LET row_data == clean_row(row)
        category == row_category(row_data, acc.current_category)
        subcategory == IF Len(row_data) > 1 /\ row_data[2] # "" THEN row_data[2] ELSE ""
        section_name == get_section_for_category(category[1], acc.current_section)
        named == IF category # None
                 THEN [specs |-> register_category(acc.specs, section_name, category[1]),
                       current_category |-> category,
                       current_section |-> Some(section_name)]
                 ELSE acc
        unit == standardize_unit(IF row_data[3] # "" THEN Some(strip(row_data[3])) ELSE None)
        value == strip(row_data[4])
    IN  IF ~any_cell(row_data) THEN acc
        ELSE IF Len(row_data) > 3 /\ category # None /\ named.current_section # None
        THEN [named EXCEPT !.specs = store_spec(@, named.current_section[1], category[1],
                                                subcategory, PDFSpecification(unit, value))]
        ELSE named

RECURSIVE process_rows(_, _)
process_rows(rows, acc) ==
    IF Len(rows) = 0 THEN acc.specs
    ELSE process_rows(Tail(rows), process_row(acc, Head(rows)))

\* row 0 taken as data only when its last cell, the value, is filled
is_first_row_data_value_only(first_row) ==
    /\ Len(first_row) >= 3
    /\ first_row[1] # ""
    /\ first_row[Len(first_row)] # ""

\* "Check if first row is data"
is_first_row_data(first_row) ==
    /\ Len(first_row) >= 3
    /\ first_row[1] # ""
    /\ any_cell(SubSeq(first_row, Len(first_row) - 1, Len(first_row)))

\* PDFProcessor._parse_table_to_specs(table)
parse_table_to_specs(table) ==
    IF Len(table) = 0 THEN EmptyDict
    ELSE IF /\ Len(clean_row(table[1])) = 2
            /\ contains(clean_row(table[1])[1], "Features")
            /\ contains(clean_row(table[1])[2], "Advantages")
    THEN EmptyDict
    ELSE process_rows(IF is_first_row_data(clean_row(table[1])) THEN table ELSE Tail(table),
                      [specs |-> EmptyDict, current_category |-> None,
                       current_section |-> None])

(***************************************************************************)
(* tools/pdf_processor.py: PDFProcessor._process_specification_tables      *)
(***************************************************************************)
RECURSIVE put_categories(_, _)
\* sections[section_name].categories[category_name] = PDFCategory(subcategories=...)
put_categories(section, categories) ==
    IF Len(categories) = 0 THEN section
    ELSE put_categories(Put(section, Head(categories).k, Head(categories).v),
                        Tail(categories))

RECURSIVE add_table_specs(_, _)
\* "for section_name, categories in specs.items()"
add_table_specs(secs, table_specs) ==
    IF Len(table_specs) = 0 THEN secs
    ELSE add_table_specs(
            Put(secs, Head(table_specs).k,
                put_categories(IF Has(secs, Head(table_specs).k)
                               THEN Get(secs, Head(table_specs).k) ELSE EmptyDict,
                               Head(table_specs).v)),
            Tail(table_specs))

(***************************************************************************)
(* pattern_enforcer/enforcer.py: PreActionEnforcer                         *)
(***************************************************************************)
\* PreActionEnforcer.__init__
PreActionEnforcer ==
    [validation_complete |-> FALSE, rules_fetched |-> FALSE, patterns_cited |-> FALSE,
     validation_shown |-> FALSE, validation_steps |-> << >>]

\* BlockedActionError(message, required_action=...)
BlockedActionError(message, required_action) ==
    [message |-> message \o "\nRequired action: " \o required_action,
     required_action |-> required_action]

\* the checks of wrapper, in order: the log entry and the error of each
RequiredSteps ==
    << [step |-> "Rules must be fetched first",
        error |-> BlockedActionError("MUST fetch rules before any action.",
                                     "fetch_rules(['rule_name'])")],
       [step |-> "Patterns must be cited",
        error |-> BlockedActionError("MUST cite patterns before any action.",
                                     "cite_patterns(rules)")],
       [step |-> "Validation must be shown",
        error |-> BlockedActionError("MUST show validation before any action.",
                                     "show_validation(patterns)")] >>

\* only the first check made
missing_step_rules_only(self) == IF ~self.rules_fetched THEN 1 ELSE 0

\* the first check of wrapper that fails, 0 when none does
missing_step(self) ==
    IF ~self.rules_fetched THEN 1
    ELSE IF ~self.patterns_cited THEN 2
    ELSE IF ~self.validation_shown THEN 3
    ELSE 0

\* wrapper(*args, **kwargs): the enforcer afterwards, what was raised, whether func ran
wrapper(self) ==
    IF ~self.validation_complete
    THEN IF missing_step(self) # 0
         THEN [self |-> [self EXCEPT !.validation_steps =
                            Append(@, RequiredSteps[missing_step(self)].step)],
               raised |-> Some(RequiredSteps[missing_step(self)].error),
               ran |-> FALSE]
         ELSE [self |-> [self EXCEPT !.validation_complete = TRUE],
               raised |-> None, ran |-> TRUE]
    ELSE [self |-> self, raised |-> None, ran |-> TRUE]

mark_rules_fetched(self) ==
    [self EXCEPT !.rules_fetched = TRUE,
                 !.validation_steps = Append(@, "+ Rules fetched")]

mark_patterns_cited(self) ==
    [self EXCEPT !.patterns_cited = TRUE,
                 !.validation_steps = Append(@, "+ Patterns cited")]

mark_validation_shown(self) ==
    [self EXCEPT !.validation_shown = TRUE,
                 !.validation_steps = Append(@, "+ Validation shown")]

\* PreActionEnforcer.reset
reset(self) ==
    [self EXCEPT !.validation_complete = FALSE, !.rules_fetched = FALSE,
                 !.patterns_cited = FALSE, !.validation_shown = FALSE,
                 !.validation_steps = << >>]

(***************************************************************************)
(* agents/dataloader_agent.py: DataLoaderAgent.process_directory           *)
(***************************************************************************)
\* str.endswith(suffix)
endswith(s, suffix) ==
    Len(s) >= Len(suffix) /\ SubSeq(s, Len(s) - Len(suffix) + 1, Len(s)) = suffix

\* directory.glob("*.pdf")
glob_pdf(dir) == SelectSeq(dir, LAMBDA f : endswith(f.name, ".pdf"))

\* process_file: get_content returns, or raises PDFProcessingError
process_file(file) ==
    IF file.readable THEN [ok |-> TRUE, error |-> ""]
    ELSE [ok |-> FALSE, error |-> "Failed to process PDF: " \o file.name]

\* the message kept for the first failed file only
record_error_first(errors, name, message) ==
    IF Len(errors) > 0 THEN errors ELSE Put(errors, name, message)

\* errors[pdf_file.name] = str(e)
record_error(errors, name, message) == Put(errors, name, message)

LoadResult(processed, failed, errors) ==
    [processed_files |-> processed, failed_files |-> failed, error_messages |-> errors]

NoLoadResult == [processed_files |-> << >>, failed_files |-> << >>,
                 error_messages |-> EmptyDict]

(***************************************************************************)
(* State                                                                   *)
(***************************************************************************)
VARIABLES
    pdf_dir,        \* the PDF files get_content can find
    model_numbers,  \* argument of compare_models
    pc,             \* position in compare_models
    i,              \* index of the loop of _collect_model_data
    models,         \* dict built by _collect_model_data
    features,       \* result of _process_features
    advantages,     \* result of _process_advantages
    sections,       \* first result of _process_specifications
    differences,    \* second result of _process_specifications
    response,       \* what compare_models returned or raised
    tables,         \* argument of _process_specification_tables
    table_index,    \* position of its loop over tables
    parsed_specs,   \* what _parse_table_to_specs returned for the last table
    table_sections, \* the sections built by _process_specification_tables
    raw_unit,       \* argument of standardize_unit
    standard_unit,  \* what standardize_unit returned
    enforcer,       \* a PreActionEnforcer instance
    calls,          \* calls made of the function it decorates
    body_runs,      \* how often the decorated function itself ran
    raised,         \* what the last call raised
    directory,      \* argument of process_directory: the entries of the directory
    file_index,     \* position of its loop over the PDF files
    processed,      \* local list of process_directory
    failed,         \* local list of process_directory
    errors,         \* local dict of process_directory
    load_result     \* what process_directory returned

compare_vars == << pdf_dir, model_numbers, i, models, features, advantages,
                   sections, differences, response >>

table_vars == << tables, table_index, parsed_specs, table_sections >>

unit_vars == << raw_unit, standard_unit >>

enforcer_vars == << enforcer, calls, body_runs, raised >>

loader_vars == << directory, file_index, processed, failed, errors, load_result >>

vars == << pc, compare_vars, table_vars, unit_vars, enforcer_vars, loader_vars >>

\* no comparison is running
CompareIdle ==
    /\ pdf_dir = <<>>
    /\ model_numbers = <<>>
    /\ i = 1
    /\ models = EmptyDict
    /\ features = <<>>
    /\ advantages = <<>>
    /\ sections = EmptyDict
    /\ differences = <<>>
    /\ response = [kind |-> "none", model_numbers |-> <<>>, sections |-> EmptyDict,
                   differences_count |-> 0]

\* no table is being processed
TablesIdle ==
    /\ tables = <<>>
    /\ table_index = 1
    /\ parsed_specs = EmptyDict
    /\ table_sections = EmptyDict

\* no unit is being standardized
UnitsIdle ==
    /\ raw_unit = None
    /\ standard_unit = None

\* no enforcer is in use
EnforcerIdle ==
    /\ enforcer = PreActionEnforcer
    /\ calls = 0
    /\ body_runs = 0
    /\ raised = None

\* no directory is being processed
LoaderIdle ==
    /\ directory = << >>
    /\ file_index = 1
    /\ processed = << >>
    /\ failed = << >>
    /\ errors = EmptyDict
    /\ load_result = NoLoadResult

(***************************************************************************)
(* Actions                                                                 *)
(***************************************************************************)
\* one iteration of the loop of _collect_model_data where get_content returns
CollectModel ==
    /\ pc = "collect"
    /\ i <= Len(model_numbers)
    /\ get_content(pdf_dir, model_numbers[i]).ok
    /\ models' = store_model(models, model_numbers[i],
                             get_content(pdf_dir, model_numbers[i]).content)
    /\ i' = i + 1
    /\ UNCHANGED << pdf_dir, model_numbers, pc, features, advantages,
                    sections, differences, response >>
    /\ UNCHANGED << table_vars, unit_vars, enforcer_vars, loader_vars >>

\* one iteration where get_content raises: a warning is printed, the model skipped
CollectFailed ==
    /\ pc = "collect"
    /\ i <= Len(model_numbers)
    /\ ~get_content(pdf_dir, model_numbers[i]).ok
    /\ i' = i + 1
    /\ UNCHANGED << pdf_dir, model_numbers, pc, models, features, advantages,
                    sections, differences, response >>
    /\ UNCHANGED << table_vars, unit_vars, enforcer_vars, loader_vars >>

\* if not models: return ComparisonResponse(model_numbers=..., comparison_id=...)
ReturnEmpty ==
    /\ pc = "collect"
    /\ i > Len(model_numbers)
    /\ Len(models) = 0
    /\ response' = ComparisonResponse(model_numbers, EmptyDict, 0)
    /\ pc' = "done"
    /\ UNCHANGED << pdf_dir, model_numbers, i, models, features, advantages,
                    sections, differences >>
    /\ UNCHANGED << table_vars, unit_vars, enforcer_vars, loader_vars >>

\* merging started as soon as one document is there
ProcessFeatures_early ==
    /\ pc = "collect"
    /\ Len(models) > 0
    /\ features' = process_feature_type(models, model_numbers, "features")
    /\ pc' = "advantages"
    /\ UNCHANGED << pdf_dir, model_numbers, i, models, advantages,
                    sections, differences, response >>
    /\ UNCHANGED << table_vars, unit_vars, enforcer_vars, loader_vars >>

ProcessFeatures ==
    /\ pc = "collect"
    /\ i > Len(model_numbers)
    /\ Len(models) > 0
    /\ features' = process_feature_type(models, model_numbers, "features")
    /\ pc' = "advantages"
    /\ UNCHANGED << pdf_dir, model_numbers, i, models, advantages,
                    sections, differences, response >>
    /\ UNCHANGED << table_vars, unit_vars, enforcer_vars, loader_vars >>

ProcessAdvantages ==
    /\ pc = "advantages"
    /\ advantages' = process_feature_type(models, model_numbers, "advantages")
    /\ pc' = "specifications"
    /\ UNCHANGED << pdf_dir, model_numbers, i, models, features,
                    sections, differences, response >>
    /\ UNCHANGED << table_vars, unit_vars, enforcer_vars, loader_vars >>

\* the compared documents given up once their specifications have been read
ProcessSpecifications_consuming ==
    /\ pc = "specifications"
    /\ LET result == process_specifications(models, model_numbers)
       IN  IF result.raised
           THEN /\ response' = [NoResponse EXCEPT !.kind = "ValidationError"]
                /\ pc' = "done"
                /\ UNCHANGED << sections, differences >>
           ELSE /\ sections' = result.sections
                /\ differences' = result.differences
                /\ pc' = "respond"
                /\ UNCHANGED response
    /\ models' = [ k \in 1..Len(models) |->
                     [models[k] EXCEPT !.v.sections = EmptyDict] ]
    /\ UNCHANGED << pdf_dir, model_numbers, i, features, advantages >>
    /\ UNCHANGED << table_vars, unit_vars, enforcer_vars, loader_vars >>

ProcessSpecifications ==
    /\ pc = "specifications"
    /\ LET result == process_specifications(models, model_numbers)
       IN  IF result.raised
           THEN /\ response' = [NoResponse EXCEPT !.kind = "ValidationError"]
                /\ pc' = "done"
                /\ UNCHANGED << sections, differences >>
           ELSE /\ sections' = result.sections
                /\ differences' = result.differences
                /\ pc' = "respond"
                /\ UNCHANGED response
    /\ UNCHANGED << pdf_dir, model_numbers, i, models, features, advantages >>
    /\ UNCHANGED << table_vars, unit_vars, enforcer_vars, loader_vars >>

\* lines 70-106: assemble response_sections and return the ComparisonResponse
Respond ==
    /\ pc = "respond"
    /\ response' = ComparisonResponse(model_numbers,
                      add_specification_sections(features_section(features, advantages),
                                                 sections),
                      Len(differences))
    /\ pc' = "done"
    /\ UNCHANGED << pdf_dir, model_numbers, i, models, features, advantages,
                    sections, differences >>
    /\ UNCHANGED << table_vars, unit_vars, enforcer_vars, loader_vars >>

Next ==
    \/ CollectModel
    \/ CollectFailed
    \/ ReturnEmpty
    \/ ProcessFeatures
    \/ ProcessAdvantages
    \/ ProcessSpecifications
    \/ Respond

(***************************************************************************)
(* Initial states: a directory of PDF files and a request                  *)
(***************************************************************************)
Electrical == "electrical specifications"
Magnetic == "magnetic specifications"

Entry(section, category, subcategory, unit, value) ==
    [section |-> section, category |-> category, subcategory |-> subcategory,
     unit |-> unit, value |-> value]

SubDict(d, key) == IF Has(d, key) THEN Get(d, key) ELSE EmptyDict

\* sections[section].categories[category].subcategories[subcategory] = spec
put_spec(secs, e) ==
    Put(secs, e.section,
        Put(SubDict(secs, e.section), e.category,
            Put(SubDict(SubDict(secs, e.section), e.category), e.subcategory,
                PDFSpecification(e.unit, e.value))))

RECURSIVE SectionsOf(_)
\* the section map that holds the given entries, inserted in order
SectionsOf(entries) ==
    IF Len(entries) = 0 THEN EmptyDict
    ELSE put_spec(SectionsOf(SubSeq(entries, 1, Len(entries) - 1)), entries[Len(entries)])

SeqsUpTo(S, n) == UNION { [1..m -> S] : m \in 0..n }

Volt == << Electrical, "Voltage", "" >>
VoltMax == << Electrical, "Voltage", "Max" >>
Current == << Electrical, "Current", "" >>
PullIn == << Magnetic, "Pull - In", "" >>

At(t, unit, value) == Entry(t[1], t[2], t[3], unit, value)

\* the table rows each file may hold: values that agree or differ across files,
\* numeric and free text, a unit that differs, a blank value cell
TableEntries(stem) ==
    IF stem = PdfStems[1]
    THEN { At(Volt, Some("V"), "24"), At(VoltMax, Some("V"), "30") }
    ELSE IF stem = PdfStems[2]
    THEN { At(Volt, Some("V"), "30"), At(Volt, None, "24"),
           At(Current, Some("A"), "0.5") }
    ELSE { At(Volt, Some("V"), "2.5"), At(Volt, Some("V"), "N/A"),
           At(Current, Some("A"), "") }

Unreadable(stem) == [stem |-> stem, readable |-> FALSE, sections |-> EmptyDict]

Readable(stem, secs) == [stem |-> stem, readable |-> TRUE, sections |-> secs]

\* every file is unreadable or holds up to MaxSpecs of its rows, in any order
TableFiles(stem) ==
    { Unreadable(stem) }
    \cup { Readable(stem, SectionsOf(es)) : es \in SeqsUpTo(TableEntries(stem), MaxSpecs) }

DiagramEntry == Entry("Diagram", "", "", None, "diagrams/520R.png")

\* one fixed document per file: a diagram, a second section, free text
PlainSections(stem) ==
    IF stem = PdfStems[1]
    THEN SectionsOf(<< At(Volt, Some("V"), "24"), DiagramEntry >>)
    ELSE IF stem = PdfStems[2]
    THEN SectionsOf(<< At(PullIn, Some("AT"), "15"), At(Volt, Some("V"), "30") >>)
    ELSE SectionsOf(<< At(Volt, Some("V"), "N/A") >>)

\* every file is unreadable, has no sections, or holds its fixed document
PlainFiles(stem) ==
    { Unreadable(stem), Readable(stem, EmptyDict), Readable(stem, PlainSections(stem)) }

Directories(F(_)) ==
    { << f1, f2, f3 >> : f1 \in F(PdfStems[1]), f2 \in F(PdfStems[2]), f3 \in F(PdfStems[3]) }

\* identifiers under which get_content finds a file that names its model the same way
DirectIds == { id \in RequestIds :
                 /\ FoundPdf[id] # 0
                 /\ ModelNumberOf[FoundPdf[id]] \in {None, Some(id)} }

InitLocals ==
    /\ pc = "collect"
    /\ i = 1
    /\ models = EmptyDict
    /\ features = <<>>
    /\ advantages = <<>>
    /\ sections = EmptyDict
    /\ differences = <<>>
    /\ response = NoResponse
    /\ TablesIdle
    /\ UnitsIdle
    /\ EnforcerIdle
    /\ LoaderIdle

Init ==
    /\ \/ /\ pdf_dir \in Directories(TableFiles)
          /\ model_numbers \in SeqsUpTo(DirectIds, MaxModels)
       \/ /\ pdf_dir \in Directories(PlainFiles)
          /\ model_numbers \in SeqsUpTo(RequestIds, MaxModels)
    /\ InitLocals

Spec == Init /\ [][Next]_vars

(***************************************************************************)
(* Initial states: files with a features box and an advantages box         *)
(***************************************************************************)
\* [line.strip() for line in text.split('\n')] without blank lines and the heading
box_lines(text, heading) ==
    SelectSeq(StripAll(split(text, "\n")),
              LAMBDA line : line # "" /\ lower(line) # heading)

\* PDFProcessor._parse_features_advantages on the text of the two boxes
parse_features_advantages(feat_text, adv_text) ==
    LET feats == IF feat_text # "" THEN box_lines(feat_text, "features") ELSE <<>>
        advs == IF adv_text # "" THEN box_lines(adv_text, "advantages") ELSE <<>>
    IN  IF Len(feats) > 0 \/ Len(advs) > 0
        THEN SectionsOf(<< Entry("Features_And_Advantages", "features", "", None,
                                 join("\n", feats)),
                           Entry("Features_And_Advantages", "advantages", "", None,
                                 join("\n", advs)) >>)
        ELSE EmptyDict

\* the text each file may hold in its features box: a heading line, bullets of
\* both glyphs, a wrapped bullet, a text repeated in one box and across files
FeatureTexts(stem) ==
    IF stem = PdfStems[1]
    THEN { "", "Features\n* Fast\n* Small", "* Small\n* Fast\n* Small" }
    ELSE IF stem = PdfStems[2]
    THEN { "* Fast\n- Low\npower", "- Low power\n* Fast" }
    ELSE { "", "Quiet\n* Small" }

AdvantageTexts(stem) ==
    IF stem = PdfStems[1]
    THEN { "", "Advantages\n- Cheap" }
    ELSE IF stem = PdfStems[2]
    THEN { "", "- Cheap\n- Safe" }
    ELSE { "- Safe\n- Cheap" }

\* every file is unreadable or holds one text in each box
FeatureFiles(stem) ==
    { Unreadable(stem) }
    \cup { Readable(stem, parse_features_advantages(f, a)) :
             f \in FeatureTexts(stem), a \in AdvantageTexts(stem) }

InitFeatures ==
    /\ pdf_dir \in Directories(FeatureFiles)
    /\ model_numbers \in SeqsUpTo(RequestIds, MaxModels)
    /\ InitLocals

SpecFeatures == InitFeatures /\ [][Next]_vars

(***************************************************************************)
(* Standardizing a unit: UnitTransformer.standardize_unit on its own       *)
(***************************************************************************)
\* base units as tables give them: table keys, other spellings of keys that
\* one of the tried variants finds or none finds, and units not in the table
UnitBases ==
    { "Ohms", "ohm", "OHM", "V", "volts", "A", "mA", "ma", "msec", "mseconds", "CC",
      "cubic centimeters", "Ampere turns", "pF", "^c", "Banana", " ", "" }

\* what follows the base: nothing, a suffix of the four abbreviated ones in
\* several spellings, another suffix, a bare hyphen, a suffix with a hyphen
UnitSuffixes ==
    { "", " - maximum", "-Minimum", " - NOMINAL", " -typical ", " - rms", " -",
      " - max - typ" }

RawUnits == { None } \cup { Some(b \o x) : b \in UnitBases, x \in UnitSuffixes }

InitUnits ==
    /\ pc = "standardize"
    /\ raw_unit \in RawUnits
    /\ standard_unit = None
    /\ CompareIdle
    /\ TablesIdle
    /\ EnforcerIdle
    /\ LoaderIdle

\* standardize_unit(raw_unit)
StandardizeUnit ==
    /\ pc = "standardize"
    /\ standard_unit' = standardize_unit(raw_unit)
    /\ pc' = "standardized"
    /\ UNCHANGED << raw_unit, compare_vars, table_vars, enforcer_vars, loader_vars >>

\* standardize_unit applied to its own result
StandardizeAgain ==
    /\ pc = "standardized"
    /\ standard_unit' = standardize_unit(standard_unit)
    /\ pc' = "restandardized"
    /\ UNCHANGED << raw_unit, compare_vars, table_vars, enforcer_vars, loader_vars >>

NextUnits ==
    \/ StandardizeUnit
    \/ StandardizeAgain

SpecUnits == InitUnits /\ [][NextUnits]_vars

(***************************************************************************)
(* Building the sections of one document from its tables                   *)
(***************************************************************************)
\* rows as _extract_tables hands them over: a category with a value, a
\* continuation row, units to standardize, a category no keyword matches, a
\* blank row, a row of one cell, keywords in several spellings, a blank value
RowPool ==
    { << "Voltage", "", "V", "24" >>,
      << "", "Max", "V", "30" >>,
      << "Test Coil", "", "Ampere Turns - maximum", " 15 " >>,
      << "Weight", "", "g", "5" >>,
      << "", "", "", "" >>,
      << "Contact Material" >>,
      << "Pull-In Range", "", "AT", "10" >>,
      << "Pull - In Range", "", "AT", "10" >>,
      << "Magnetic Power", "", "W", "1" >>,
      << " Current ", "Max", "A", "" >> }

\* the tables that may follow the first one: none, one that repeats a category
\* of the first, or a two-column Features/Advantages table and another table
LaterTables ==
    { << >>,
      << << << "Voltage", "Min", "V", "12" >> >> >>,
      << << << "Features", "Advantages" >>, << "Voltage", "", "V", "1" >> >>,
         << << "Weight", "", "g", "7" >>, << "", "Max", "V", "31" >> >> >> }

InitTables ==
    /\ pc = "tables"
    /\ tables \in { << first >> \o later :
                      first \in SeqsUpTo(RowPool, MaxRows), later \in LaterTables }
    /\ table_index = 1
    /\ parsed_specs = EmptyDict
    /\ table_sections = EmptyDict
    /\ CompareIdle
    /\ UnitsIdle
    /\ EnforcerIdle
    /\ LoaderIdle

\* one iteration of "for table in tables"
ProcessTable ==
    /\ pc = "tables"
    /\ table_index <= Len(tables)
    /\ parsed_specs' = parse_table_to_specs(tables[table_index])
    /\ table_sections' = IF parsed_specs' # EmptyDict
                         THEN add_table_specs(table_sections, parsed_specs')
                         ELSE table_sections
    /\ table_index' = table_index + 1
    /\ UNCHANGED << pc, tables, compare_vars, unit_vars, enforcer_vars, loader_vars >>

\* return sections
ReturnSections ==
    /\ pc = "tables"
    /\ table_index > Len(tables)
    /\ pc' = "sections_returned"
    /\ UNCHANGED << table_vars, compare_vars, unit_vars, enforcer_vars, loader_vars >>

NextTables ==
    \/ ProcessTable
    \/ ReturnSections

SpecTables == InitTables /\ [][NextTables]_vars


(***************************************************************************)
(* Initial states: one table of heading, short, blank and value rows       *)
(***************************************************************************)
\* the rows a table is made of: rows of four cells with and without a
\* category cell, a blank row, rows of one cell, the two-column
\* Features/Advantages heading and a row of three cells
HeadingRows ==
    { << "Voltage", "", "V", "24" >>,
      << "", "Max", "V", "30" >>,
      << "", "", "", "" >>,
      << "Contact Material" >>,
      << "Capsule Type" >>,
      << "Features", "Advantages" >>,
      << "Weight", "g", "" >> }

\* _process_specification_tables is handed one table, of a heading row and
\* up to MaxRows rows
InitRows ==
    /\ pc = "tables"
    /\ tables \in { << table >> : table \in SeqsUpTo(HeadingRows, MaxRows + 1) }
    /\ table_index = 1
    /\ parsed_specs = EmptyDict
    /\ table_sections = EmptyDict
    /\ CompareIdle
    /\ UnitsIdle
    /\ EnforcerIdle
    /\ LoaderIdle

SpecRows == InitRows /\ [][NextTables]_vars


(***************************************************************************)
(* Initial states: one value per file, written in many ways                *)
(***************************************************************************)
\* what the value cell of a table row may read
ValueTexts == { "24", "30", "2.5", "-40", "+125", "1e3", "1.2.3", "1 0", "." }

\* every file is unreadable or holds the one triple Voltage, with any of the values
ValueFiles(stem) ==
    { Unreadable(stem) }
    \cup { Readable(stem, SectionsOf(<< At(Volt, Some("V"), v) >>)) : v \in ValueTexts }

\* distinct models, in any order
DistinctRequests ==
    { r \in UNION { [1..n -> DirectIds] : n \in 1..MaxModels } :
        \A a, b \in 1..Len(r) : a # b => r[a] # r[b] }

InitValues ==
    /\ pdf_dir \in Directories(ValueFiles)
    /\ model_numbers \in DistinctRequests
    /\ InitLocals

SpecValues == InitValues /\ [][Next]_vars

(***************************************************************************)
(* Using a PreActionEnforcer: marking steps, calling the function, reset   *)
(***************************************************************************)
InitEnforcer ==
    /\ pc = "enforcer"
    /\ enforcer = PreActionEnforcer
    /\ calls = 0
    /\ body_runs = 0
    /\ raised = None
    /\ CompareIdle
    /\ TablesIdle
    /\ UnitsIdle
    /\ LoaderIdle

\* a call of the decorated function
Call ==
    /\ pc = "enforcer"
    /\ calls < MaxCalls
    /\ wrapper(enforcer).ran \/ Len(enforcer.validation_steps) < MaxSteps
    /\ enforcer' = wrapper(enforcer).self
    /\ raised' = wrapper(enforcer).raised
    /\ body_runs' = IF wrapper(enforcer).ran THEN body_runs + 1 ELSE body_runs
    /\ calls' = calls + 1
    /\ UNCHANGED << pc, compare_vars, table_vars, unit_vars, loader_vars >>

MarkRulesFetched ==
    /\ pc = "enforcer"
    /\ Len(enforcer.validation_steps) < MaxSteps
    /\ enforcer' = mark_rules_fetched(enforcer)
    /\ UNCHANGED << pc, calls, body_runs, raised,
                    compare_vars, table_vars, unit_vars, loader_vars >>

MarkPatternsCited ==
    /\ pc = "enforcer"
    /\ Len(enforcer.validation_steps) < MaxSteps
    /\ enforcer' = mark_patterns_cited(enforcer)
    /\ UNCHANGED << pc, calls, body_runs, raised,
                    compare_vars, table_vars, unit_vars, loader_vars >>

MarkValidationShown ==
    /\ pc = "enforcer"
    /\ Len(enforcer.validation_steps) < MaxSteps
    /\ enforcer' = mark_validation_shown(enforcer)
    /\ UNCHANGED << pc, calls, body_runs, raised,
                    compare_vars, table_vars, unit_vars, loader_vars >>

Reset ==
    /\ pc = "enforcer"
    /\ enforcer' = reset(enforcer)
    /\ UNCHANGED << pc, calls, body_runs, raised,
                    compare_vars, table_vars, unit_vars, loader_vars >>

NextEnforcer ==
    \/ Call
    \/ MarkRulesFetched
    \/ MarkPatternsCited
    \/ MarkValidationShown
    \/ Reset

SpecEnforcer == InitEnforcer /\ [][NextEnforcer]_vars

(***************************************************************************)
(* Processing a directory of files                                         *)
(***************************************************************************)
\* the names a directory may hold
FileNames == { "HSR-520R.pdf", "HSR-980F.pdf", "test_model.pdf", "notes.txt" }

\* the listings of a directory: distinct names in any order, each file
\* extractable or not
Listings ==
    { d \in SeqsUpTo([name : FileNames, readable : BOOLEAN], MaxFiles) :
        \A a, b \in 1..Len(d) : a # b => d[a].name # d[b].name }

InitLoader ==
    /\ pc = "load"
    /\ directory \in Listings
    /\ file_index = 1
    /\ processed = << >>
    /\ failed = << >>
    /\ errors = EmptyDict
    /\ load_result = NoLoadResult
    /\ CompareIdle
    /\ TablesIdle
    /\ UnitsIdle
    /\ EnforcerIdle

\* one iteration of the loop where process_file returns
ProcessFile ==
    /\ pc = "load"
    /\ file_index <= Len(glob_pdf(directory))
    /\ process_file(glob_pdf(directory)[file_index]).ok
    /\ processed' = Append(processed, glob_pdf(directory)[file_index].name)
    /\ file_index' = file_index + 1
    /\ UNCHANGED << pc, directory, failed, errors, load_result,
                    compare_vars, table_vars, unit_vars, enforcer_vars >>

\* one iteration of the loop where process_file raises
ProcessFileFailed ==
    /\ pc = "load"
    /\ file_index <= Len(glob_pdf(directory))
    /\ ~process_file(glob_pdf(directory)[file_index]).ok
    /\ failed' = Append(failed, glob_pdf(directory)[file_index].name)
    /\ errors' = record_error(errors, glob_pdf(directory)[file_index].name,
                              process_file(glob_pdf(directory)[file_index]).error)
    /\ file_index' = file_index + 1
    /\ UNCHANGED << pc, directory, processed, load_result,
                    compare_vars, table_vars, unit_vars, enforcer_vars >>

\* return LoadResult(...)
ReturnLoadResult ==
    /\ pc = "load"
    /\ file_index > Len(glob_pdf(directory))
    /\ load_result' = LoadResult(processed, failed, errors)
    /\ pc' = "loaded"
    /\ UNCHANGED << directory, file_index, processed, failed, errors,
                    compare_vars, table_vars, unit_vars, enforcer_vars >>

NextLoader ==
    \/ ProcessFile
    \/ ProcessFileFailed
    \/ ReturnLoadResult

SpecLoader == InitLoader /\ [][NextLoader]_vars

(***************************************************************************)
(* Reading a finished run                                                  *)
(***************************************************************************)
\* compare_models returned a ComparisonResponse
Returned == pc = "done" /\ response.kind = "response"

\* the requested models that have a document: the models the comparison is over
Contributing == { name \in Range(model_numbers) : Has(models, name) }

Document(name) == Get(models, name)

HasTriple(name, t) == get_specification(Document(name), t[1], t[2], t[3]) # None

\* the contributing models whose document holds triple t
Holders(t) == { name \in Contributing : HasTriple(name, t) }

RawSpec(name, t) == get_specification(Document(name), t[1], t[2], t[3])[1]

RawValue(name, t) == RawSpec(name, t).value

\* the ComparisonSpecification entries of the response, each with its position
\* sections[s].categories[c][n] and the triple that position and entry name
ResponseSpecs ==
    UNION { UNION { { [pos |-> << s, c, n >>,
                       triple |-> << response.sections[s].k,
                                     response.sections[s].v[c].k,
                                     response.sections[s].v[c].v[n].specification >>,
                       spec |-> response.sections[s].v[c].v[n]] :
                      n \in 1..Len(response.sections[s].v[c].v) } :
                    c \in 1..Len(response.sections[s].v) } :
            s \in { x \in 1..Len(response.sections) :
                      response.sections[x].k # "Features_And_Advantages" } }

DifferenceTriple(d) == << d.category, d.subcategory, d.specification >>

\* digits with at most one '.', and at least one digit
NumericText(v) ==
    /\ \E k \in 1..Len(v) : IsDigitChar(Char(v, k))
    /\ \A k \in 1..Len(v) : IsDigitChar(Char(v, k)) \/ Char(v, k) = "."
    /\ Cardinality({ k \in 1..Len(v) : Char(v, k) = "." }) <= 1

\* the distinct names of model_numbers, in order of first occurrence
FirstOccurrences(seq) ==
    LET keep == { k \in 1..Len(seq) : \A j \in 1..(k - 1) : seq[j] # seq[k] }
        nth(r) == CHOOSE k \in keep : Cardinality({ j \in keep : j < k }) = r - 1
    IN  [ r \in 1..Cardinality(keep) |-> seq[nth(r)] ]

\* the holders of triple t in model order
OrderedHolders(t) == SelectSeq(FirstOccurrences(model_numbers), LAMBDA m : m \in Holders(t))

(***************************************************************************)
(* Claims                                                                  *)
(***************************************************************************)
\* C1: in a returned comparison, has_differences of a triple is true exactly when
\* the models holding the triple hold more than one distinct raw value string;
\* units and display values play no part.
C1_HasDifferencesIffDistinctValues ==
    Returned =>
        \A e \in ResponseSpecs :
            e.spec.has_differences
                <=> Cardinality({ RawValue(m, e.triple) : m \in Holders(e.triple) }) > 1

\* two models hold the same value string with different units: no difference
C1_Witness ==
    /\ Returned
    /\ \E e \in ResponseSpecs :
          /\ ~e.spec.has_differences
          /\ \E m1, m2 \in Holders(e.triple) :
                /\ RawValue(m1, e.triple) = RawValue(m2, e.triple)
                /\ RawSpec(m1, e.triple).unit # RawSpec(m2, e.triple).unit

\* C2: exactly one Difference per triple with has_differences, none for any
\* other triple, and differences_count is the number of such triples.
C2_OneDifferencePerDifferingTriple ==
    Returned =>
        /\ \A e \in ResponseSpecs :
              Cardinality({ d \in 1..Len(differences) :
                              DifferenceTriple(differences[d]) = e.triple })
                 = IF e.spec.has_differences THEN 1 ELSE 0
        /\ \A d \in 1..Len(differences) :
              \E e \in ResponseSpecs : e.triple = DifferenceTriple(differences[d])
        /\ response.differences_count
              = Cardinality({ e \in ResponseSpecs : e.spec.has_differences })

\* three models hold a triple, two agree and one differs: one Difference
C2_Witness ==
    /\ Returned
    /\ response.differences_count = 1
    /\ \E e \in ResponseSpecs :
          /\ e.spec.has_differences
          /\ Cardinality(Holders(e.triple)) = 3
          /\ Cardinality({ RawValue(m, e.triple) : m \in Holders(e.triple) }) = 2

\* C3: when every value of a differing triple is numeric, the Difference names
\* a model holding the largest value and describes "Value of {max} vs {min}".
C3_NumericExtreme ==
    Returned =>
        \A k \in 1..Len(differences) :
            LET d == differences[k]
                t == DifferenceTriple(d)
                nums == { float(RawValue(m, t)) : m \in Holders(t) }
                hi == CHOOSE x \in nums : \A y \in nums : ~FloatLess(x, y)
                lo == CHOOSE x \in nums : \A y \in nums : ~FloatLess(y, x)
            IN  (\A m \in Holders(t) : NumericText(RawValue(m, t))) =>
                    /\ d.model \in Holders(t)
                    /\ \A m \in Holders(t) :
                          ~FloatLess(float(RawValue(d.model, t)), float(RawValue(m, t)))
                    /\ d.difference
                          = "Value of " \o float_str(hi) \o " vs " \o float_str(lo)

\* values "24" and "30": the 30-value model, "Value of 30.0 vs 24.0"
C3_Witness ==
    /\ Returned
    /\ \E k \in 1..Len(differences) :
          /\ differences[k].difference = "Value of 30.0 vs 24.0"
          /\ RawValue(differences[k].model, DifferenceTriple(differences[k])) = "30"
          /\ OrderedHolders(DifferenceTriple(differences[k]))[1] # differences[k].model

\* C4: when some value of a differing triple is not numeric, the Difference
\* names the first model in model order that holds the triple, and describes
\* that model's value vs the other holders' values in model order.
C4_FirstModelForText ==
    Returned =>
        \A k \in 1..Len(differences) :
            LET d == differences[k]
                t == DifferenceTriple(d)
                order == OrderedHolders(t)
            IN  (\E m \in Holders(t) : ~NumericText(RawValue(m, t))) =>
                    /\ d.model = order[1]
                    /\ d.difference
                          = "Value of " \o RawValue(order[1], t) \o " vs "
                            \o join(", ", [ j \in 1..(Len(order) - 1) |->
                                              RawValue(order[j + 1], t) ])

\* three holders, the first holds the majority value and is still the one named
C4_Witness ==
    /\ Returned
    /\ \E k \in 1..Len(differences) :
          LET t == DifferenceTriple(differences[k])
              order == OrderedHolders(t)
          IN  /\ Len(order) = 3
              /\ RawValue(order[1], t) = RawValue(order[2], t)
              /\ ~NumericText(RawValue(order[3], t))
              /\ differences[k].model = order[1]


Requested == Range(model_numbers)

\* the requested models for which get_content returns, and those for which it raises
Succeeded == { id \in Requested : get_content(pdf_dir, id).ok }
Failed == Requested \ Succeeded

\* the triples of a document outside the features and diagram sections
TriplesIn(content) ==
    UNION { UNION { { << content.sections[s].k, content.sections[s].v[c].k,
                         content.sections[s].v[c].v[n].k >> :
                        n \in 1..Len(content.sections[s].v[c].v) } :
                    c \in 1..Len(content.sections[s].v) } :
            s \in { x \in 1..Len(content.sections) :
                      /\ content.sections[x].k # "Features_And_Advantages"
                      /\ content.sections[x].k # "Diagram" } }

\* C5: whenever fewer than two model documents are available, compare_models
\* signals an error and returns no ComparisonResponse.
C5_PreconditionError ==
    (pc = "done" /\ Len(models) < 2) => response.kind # "response"

\* C6: when some requested models fail and at least two succeed, a response is
\* returned, no value map holds a failed model, and every value of every
\* succeeded model is compared.
C6_PartialFailureTolerated ==
    (pc = "done" /\ Failed # {} /\ Cardinality(Succeeded) >= 2) =>
        /\ response.kind = "response"
        /\ \A e \in ResponseSpecs : Keys(e.spec.values) \cap Failed = {}
        /\ \A m \in Succeeded :
              \A t \in TriplesIn(get_content(pdf_dir, m).content) :
                 \E e \in ResponseSpecs :
                    /\ e.triple = t
                    /\ Has(e.spec.values, m)
                    /\ Get(e.spec.values, m).value
                          = get_specification(get_content(pdf_dir, m).content,
                                              t[1], t[2], t[3])[1].value

\* the directory in which every file that could not be read is a readable
\* document without sections
AllReadable(dir) ==
    [ k \in 1..Len(dir) |->
        IF dir[k].readable THEN dir[k] ELSE Readable(dir[k].stem, EmptyDict) ]

\* C7: the returned value tells the caller which requested models failed: a run
\* over the same request in which no model fails returns a different value.
C7_FailedModelsReported ==
    (Returned /\ Failed # {}) =>
        compare_models(AllReadable(pdf_dir), model_numbers) # response

\* where triple t is first seen: << index in model_numbers, section, category,
\* subcategory >> positions, in the order the documents list them
TripleRank(t) ==
    LET k == CHOOSE x \in 1..Len(model_numbers) :
                /\ model_numbers[x] \in Holders(t)
                /\ \A j \in 1..(x - 1) : model_numbers[j] \notin Holders(t)
        secs == Document(model_numbers[k]).sections
        s == CHOOSE x \in 1..Len(secs) : secs[x].k = t[1]
        c == CHOOSE x \in 1..Len(secs[s].v) : secs[s].v[x].k = t[2]
        n == CHOOSE x \in 1..Len(secs[s].v[c].v) : secs[s].v[c].v[x].k = t[3]
    IN  << k, s, c, n >>

LexLess(a, b) ==
    \E q \in 1..Len(a) : a[q] < b[q] /\ \A r \in 1..(q - 1) : a[r] = b[r]

\* C8: the ComparisonSpecification entries correspond one-to-one to the union
\* of the triples of the contributing models outside Features_And_Advantages
\* and Diagram, each under its section and category, in first-seen order.
C8_TriplesOnceInFirstSeenOrder ==
    Returned =>
        /\ { e.triple : e \in ResponseSpecs }
              = UNION { TriplesIn(Document(m)) : m \in Contributing }
        /\ \A e1, e2 \in ResponseSpecs : e1.triple = e2.triple => e1.pos = e2.pos
        /\ \A e \in ResponseSpecs : e.spec.category = e.triple[2]
        /\ \A e1, e2 \in ResponseSpecs :
              (/\ e1.pos[1] = e2.pos[1]
               /\ e1.pos[2] = e2.pos[2]
               /\ e1.pos[3] < e2.pos[3])
                  => LexLess(TripleRank(e1.triple), TripleRank(e2.triple))
        /\ \A s \in 1..Len(sections) :
              \A n1, n2 \in 1..Len(sections[s].v) :
                 n1 < n2 =>
                    LexLess(TripleRank(<< sections[s].k, sections[s].v[n1].category,
                                          sections[s].v[n1].specification >>),
                            TripleRank(<< sections[s].k, sections[s].v[n2].category,
                                          sections[s].v[n2].specification >>))

\* Voltage, then Current, then Voltage/Max are discovered in that order (not
\* alphabetical) and grouped as Voltage: ["", Max], Current: [""]
C8_Witness ==
    /\ Returned
    /\ \E s \in 1..Len(sections) :
          /\ [ n \in 1..Len(sections[s].v) |-> sections[s].v[n].category ]
                = << "Voltage", "Current", "Voltage" >>
          /\ KeyList(Get(response.sections, sections[s].k)) = << "Voltage", "Current" >>
          /\ Len(Get(Get(response.sections, sections[s].k), "Voltage")) = 2

\* C9: the keys of every values map, of a ComparisonSpecification and of a
\* Difference, are exactly the contributing models whose document holds the triple.
C9_ValuesKeyedByHolders ==
    Returned =>
        /\ \A e \in ResponseSpecs :
              /\ Keys(e.spec.values) = Holders(e.triple)
              /\ Len(e.spec.values) = Cardinality(Holders(e.triple))
        /\ \A k \in 1..Len(differences) :
              /\ Keys(differences[k].values) = Holders(DifferenceTriple(differences[k]))
              /\ Len(differences[k].values)
                    = Cardinality(Holders(DifferenceTriple(differences[k])))

\* three models contribute, only two of them hold a triple, and they differ
C9_Witness ==
    /\ Returned
    /\ Cardinality(Contributing) = 3
    /\ \E k \in 1..Len(differences) :
          /\ Cardinality(Holders(DifferenceTriple(differences[k]))) = 2
          /\ Keys(differences[k].values) # Contributing


\* the merged list of the response for "features" or "advantages"
MergedList(feature_type) ==
    IF /\ Has(response.sections, "Features_And_Advantages")
       /\ Has(Get(response.sections, "Features_And_Advantages"), feature_type)
    THEN Get(Get(response.sections, "Features_And_Advantages"), feature_type)
    ELSE <<>>

\* the items of the k-th requested model, in the order its text lists them
SourceItems(k, feature_type) ==
    IF model_numbers[k] \in Contributing
    THEN processed_items(feature_text(models, model_numbers[k], feature_type))
    ELSE <<>>

SourceTexts(feature_type) ==
    UNION { Range(SourceItems(k, feature_type)) : k \in 1..Len(model_numbers) }

\* where a text first appears: << index in model_numbers, index among the items >>
TextRank(text, feature_type) ==
    LET k == CHOOSE x \in 1..Len(model_numbers) :
                /\ text \in Range(SourceItems(x, feature_type))
                /\ \A j \in 1..(x - 1) : text \notin Range(SourceItems(j, feature_type))
        n == CHOOSE x \in 1..Len(SourceItems(k, feature_type)) :
                /\ SourceItems(k, feature_type)[x] = text
                /\ \A j \in 1..(x - 1) : SourceItems(k, feature_type)[j] # text
    IN  << k, n >>

\* C10: the merged features list, and the merged advantages list, holds exactly
\* one ComparisonFeature per distinct item text of the contributing models, in
\* the order in which the texts first appear when models are taken in model order.
C10_OneFeaturePerTextInFirstAppearanceOrder ==
    Returned =>
        \A ft \in { "features", "advantages" } :
            LET merged == MergedList(ft)
                rank == [ a \in 1..Len(merged) |-> TextRank(merged[a].text, ft) ]
            IN  /\ \A a, b \in 1..Len(merged) :
                      a # b => merged[a].text # merged[b].text
                /\ { merged[a].text : a \in 1..Len(merged) } = SourceTexts(ft)
                /\ \A a, b \in 1..Len(merged) :
                      a < b => LexLess(rank[a], rank[b])

\* a text recurs within one model's items and in another model's items
C10_Witness ==
    /\ Returned
    /\ Len(MergedList("features")) >= 2
    /\ \E k1, k2 \in 1..Len(model_numbers) :
          /\ model_numbers[k1] # model_numbers[k2]
          /\ \E a, b \in 1..Len(SourceItems(k1, "features")) :
                /\ a # b
                /\ SourceItems(k1, "features")[a] = SourceItems(k1, "features")[b]
                /\ SourceItems(k1, "features")[a] \in Range(SourceItems(k2, "features"))


FeatureTypes == { "features", "advantages" }

\* the item texts of the document held under name m, none when m has no document
OwnTexts(m, feature_type) ==
    IF m \in Contributing
    THEN Range(processed_items(feature_text(models, m, feature_type)))
    ELSE {}

RECURSIVE MergedFrom(_, _, _)
\* the merged lists before model k is processed and after each model from k on
MergedFrom(k, acc, feature_type) ==
    IF k > Len(model_numbers) THEN << acc.features >>
    ELSE << acc.features >>
         \o MergedFrom(k + 1,
                merge_items(processed_items(feature_text(models, model_numbers[k],
                                                         feature_type)),
                            model_numbers[k], model_numbers, acc),
                feature_type)

\* entry n + 1 is the merged list once the first n requested models have been processed
MergedAfter(feature_type) ==
    MergedFrom(1, [features |-> <<>>, seen_texts |-> {}], feature_type)

\* C11: every ComparisonFeature of a merged list has one presence key per
\* requested model, a model's flag is true exactly when that model's own text
\* yields an item equal to the feature's text, and processing one more model
\* never turns a true flag false.
C11_FlagsTellOwnItems ==
    Returned =>
        \A ft \in FeatureTypes :
            /\ \A a \in 1..Len(MergedList(ft)) :
                  DOMAIN MergedList(ft)[a].models = Range(model_numbers)
            /\ \A m \in Range(model_numbers) :
                  LET own == OwnTexts(m, ft)
                  IN  \A a \in 1..Len(MergedList(ft)) :
                         MergedList(ft)[a].models[m] <=> MergedList(ft)[a].text \in own
            /\ MergedAfter(ft)[Len(model_numbers) + 1] = MergedList(ft)
            /\ LET after == MergedAfter(ft)
               IN  \A n \in 1..Len(model_numbers) :
                      \A a \in 1..Len(after[n]) :
                         \A m \in Range(model_numbers) :
                            after[n][a].models[m] => after[n + 1][a].models[m]

\* three models are compared, two of them list a feature and the third does not
C11_Witness ==
    /\ Returned
    /\ Cardinality(Range(model_numbers)) = 3
    /\ \E a \in 1..Len(MergedList("features")) :
          /\ Cardinality({ m \in Range(model_numbers) :
                             MergedList("features")[a].models[m] }) = 2
          /\ \E n \in 2..Len(model_numbers) :
                /\ MergedAfter("features")[n] # <<>>
                /\ MergedAfter("features")[n + 1][1].models
                      # MergedAfter("features")[n][1].models

IsBullet(line) == startswith(line, "*") \/ startswith(line, "-")

\* the positions of the lines at which an item starts: the first line and
\* every bullet line
ItemStarts(lines) == { k \in 1..Len(lines) : k = 1 \/ IsBullet(lines[k]) }

\* the lines of the j-th item: from its start up to the line before the next start
ItemLines(lines, j) ==
    LET start == CHOOSE k \in ItemStarts(lines) :
                    Cardinality({ x \in ItemStarts(lines) : x < k }) = j - 1
        later == { x \in ItemStarts(lines) : x > start }
        stop == IF later = {} THEN Len(lines)
                ELSE (CHOOSE x \in later : \A y \in later : x <= y) - 1
    IN  SubSeq(lines, start, stop)

\* the raw lines of a text, trimmed, without the blank ones
TrimmedLines(value) ==
    LET raw == split(value, "\n")
        kept == SelectSeq(raw, LAMBDA line : strip(line) # "")
    IN  [ k \in 1..Len(kept) |-> strip(kept[k]) ]

\* C12: the items of a model's text are its trimmed non-blank lines grouped in
\* order: an item starts at the first line and at every line beginning with a
\* bullet glyph, and the lines up to the next start are appended to it, joined
\* by single spaces, so that no line is lost.
C12_ItemsAreGroupedLines ==
    Returned =>
        \A ft \in FeatureTypes : \A m \in Contributing :
            LET value == feature_text(models, m, ft)
                lines == TrimmedLines(value)
                items == processed_items(value)
            IN  /\ Len(items) = Cardinality(ItemStarts(lines))
                /\ \A j \in 1..Len(items) : items[j] = join(" ", ItemLines(lines, j))
                /\ Concat([ j \in 1..Len(items) |-> ItemLines(lines, j) ]) = lines

\* a text with a wrapped bullet, and a text whose first line is not a bullet
C12_Witness ==
    /\ Returned
    /\ \E m \in Contributing :
          LET lines == TrimmedLines(feature_text(models, m, "features"))
          IN  /\ Len(lines) = 3
              /\ Len(processed_items(feature_text(models, m, "features"))) = 2
              /\ ~IsBullet(lines[3])
    /\ \E m \in Contributing :
          LET lines == TrimmedLines(feature_text(models, m, "features"))
          IN  Len(lines) = 2 /\ ~IsBullet(lines[1]) /\ IsBullet(lines[2])

\* C13: the response has a Features_And_Advantages section exactly when the
\* merged features or the merged advantages are not empty, and the section
\* then holds exactly the non-empty ones of the two lists.
C13_FeaturesSectionOnlyWithContent ==
    Returned =>
        /\ Has(response.sections, "Features_And_Advantages")
              <=> (features # <<>> \/ advantages # <<>>)
        /\ Has(response.sections, "Features_And_Advantages") =>
              LET section == Get(response.sections, "Features_And_Advantages")
              IN  /\ Keys(section) = { ft \in FeatureTypes :
                                         (IF ft = "features" THEN features
                                          ELSE advantages) # <<>> }
                  /\ Len(section) = Cardinality(Keys(section))
                  /\ Has(section, "features") => Get(section, "features") = features
                  /\ Has(section, "advantages") => Get(section, "advantages") = advantages

\* features were merged, no advantages: the section has the one category
C13_Witness ==
    /\ Returned
    /\ features # <<>>
    /\ advantages = <<>>
    /\ KeyList(Get(response.sections, "Features_And_Advantages")) = << "features" >>


\* the text before the first '-' of a raw unit, trimmed
BaseOf(x) ==
    IF \E k \in 1..Len(x) : Char(x, k) = "-"
    THEN strip(SubSeq(x, 1, FirstIndexOf(x, "-") - 1))
    ELSE strip(x)

\* the text after the first '-' of a raw unit, trimmed; "" when there is none
SuffixOf(x) ==
    IF \E k \in 1..Len(x) : Char(x, k) = "-"
    THEN strip(SubSeq(x, FirstIndexOf(x, "-") + 1, Len(x)))
    ELSE ""

\* the five spellings under which a base is looked up
CaseVariants(b) == { b, lower(b), upper(b), capitalize(b), title(b) }

\* the displays of the table entries that a spelling of the base of x names
MatchedDisplays(x) ==
    { STANDARD_UNITS[k].v :
        k \in { j \in 1..Len(STANDARD_UNITS) :
                  STANDARD_UNITS[j].k \in CaseVariants(BaseOf(x)) } }

\* a raw unit whose base matches the canonical table
Known(u) == u # None /\ u # Some("") /\ MatchedDisplays(u[1]) # {}

Abbreviation ==
    [ x \in { "maximum", "minimum", "nominal", "typical" } |->
        IF x = "maximum" THEN "max" ELSE IF x = "minimum" THEN "min"
        ELSE IF x = "nominal" THEN "nom" ELSE "typ" ]

\* C18: standardize_unit applied to its own result returns that result again,
\* for every raw unit whose base matches the canonical table.
C18_StandardizeIdempotent ==
    [][(pc = "standardized" /\ pc' = "restandardized" /\ Known(raw_unit))
          => standard_unit' = standard_unit]_vars

\* a unit with a suffix was rewritten, its result is itself a known unit with
\* a suffix, and the second application has run
C18_Witness ==
    /\ pc = "restandardized"
    /\ Known(raw_unit)
    /\ SuffixOf(raw_unit[1]) # ""
    /\ standard_unit # raw_unit
    /\ Known(standard_unit)
    /\ SuffixOf(standard_unit[1]) # ""

\* C19: for a raw unit whose base matches the canonical table the result is the
\* canonical display alone when there is no suffix, the display, " - " and the
\* abbreviation max, min, nom or typ when the suffix is one of maximum, minimum,
\* nominal, typical in any case, and the display, " - " and the suffix as
\* written otherwise; "Ohms - maximum" gives "@ - max" and "ohm" gives "@".
C19_DisplayAndSuffix ==
    /\ (pc = "standardized" /\ Known(raw_unit)) =>
          /\ Cardinality(MatchedDisplays(raw_unit[1])) = 1
          /\ \E d \in MatchedDisplays(raw_unit[1]) :
                standard_unit =
                   Some(IF SuffixOf(raw_unit[1]) = "" THEN d
                        ELSE IF lower(SuffixOf(raw_unit[1])) \in DOMAIN Abbreviation
                        THEN d \o " - " \o Abbreviation[lower(SuffixOf(raw_unit[1]))]
                        ELSE d \o " - " \o SuffixOf(raw_unit[1]))
    /\ (pc = "standardized" /\ raw_unit = Some("Ohms - maximum"))
          => standard_unit = Some("@ - max")
    /\ (pc = "standardized" /\ raw_unit = Some("ohm")) => standard_unit = Some("@")

\* "Ohms - maximum" has been standardized
C19_Witness ==
    /\ pc = "standardized"
    /\ raw_unit = Some("Ohms - maximum")
    /\ standard_unit = Some("@ - max")

LastTable == tables[table_index - 1]

\* the rows of a table that are read as data, cells trimmed
DataRows(table) ==
    IF Len(table) = 0 THEN << >>
    ELSE IF /\ Len(table[1]) = 2
            /\ contains(strip(table[1][1]), "Features")
            /\ contains(strip(table[1][2]), "Advantages")
    THEN << >>
    ELSE LET rows == IF is_first_row_data(clean_row(table[1])) THEN table
                     ELSE Tail(table)
         IN  [ n \in 1..Len(rows) |-> clean_row(rows[n]) ]

Largest(S) == CHOOSE x \in S : \A y \in S : y <= x

\* the category in force at row n: the category cell of the latest row up to
\* n that has one
Carried(rows, n) ==
    LET naming == { j \in 1..n : Len(rows[j]) >= 1 /\ rows[j][1] # "" }
    IN  IF naming = {} THEN None ELSE Some(rows[Largest(naming)][1])

\* row n is not blank and has a category of its own or a carried one
Bearing(rows, n) == any_cell(rows[n]) /\ Carried(rows, n) # None

\* row n has a value column as well
Storing(rows, n) == Bearing(rows, n) /\ Len(rows[n]) > 3

RowSpec(rows, n) ==
    [unit |-> standardize_unit(IF rows[n][3] # "" THEN Some(rows[n][3]) ELSE None),
     value |-> rows[n][4]]

SameKey(rows, n, m) ==
    Carried(rows, n) = Carried(rows, m) /\ rows[n][2] = rows[m][2]

\* C14: parse_table stores a row with an empty category cell under the most
\* recently seen category and a row with an empty subcategory cell under the
\* key "", next to the named subcategories of the category: the rows
\* Voltage,"",V,24 and "",Max,V,30 give the one category Voltage of the
\* electrical section with subcategories "" (24 V) and Max (30 V).
C14_CarriedCategoryAndEmptySubcategory ==
    table_index > 1 =>
        LET rows == DataRows(LastTable)
        IN  /\ \A n \in 1..Len(rows) :
                  Storing(rows, n) =>
                     \E x \in 1..Len(parsed_specs) :
                        /\ Has(parsed_specs[x].v, Carried(rows, n)[1])
                        /\ Has(Get(parsed_specs[x].v, Carried(rows, n)[1]), rows[n][2])
                        /\ \E m \in n..Len(rows) :
                              /\ Storing(rows, m)
                              /\ SameKey(rows, n, m)
                              /\ Get(Get(parsed_specs[x].v, Carried(rows, n)[1]), rows[n][2])
                                    = RowSpec(rows, m)
                              /\ \A later \in (m + 1)..Len(rows) :
                                    ~(Storing(rows, later) /\ SameKey(rows, n, later))
            /\ UNION { Keys(parsed_specs[x].v) : x \in 1..Len(parsed_specs) }
                  = { Carried(rows, n)[1] : n \in { j \in 1..Len(rows) : Bearing(rows, j) } }
            /\ LastTable = << << "Voltage", "", "V", "24" >>, << "", "Max", "V", "30" >> >>
                  => parsed_specs =
                        << [k |-> "electrical specifications",
                            v |-> << [k |-> "Voltage",
                                      v |-> << [k |-> "",
                                                v |-> [unit |-> Some("V"), value |-> "24"]],
                                               [k |-> "Max",
                                                v |-> [unit |-> Some("V"), value |-> "30"]]
                                            >>] >>] >>

\* the two rows of the scenario have been parsed
C14_Witness ==
    /\ table_index > 1
    /\ LastTable = << << "Voltage", "", "V", "24" >>, << "", "Max", "V", "30" >> >>
    /\ Keys(Get(Get(parsed_specs, "electrical specifications"), "Voltage")) = { "", "Max" }

\* a keyword of the set occurs in the category, whatever the case
Mentions(category, keywords) ==
    LET category_lower == lower(category)
    IN  \E w \in keywords : contains(category_lower, w)

ElectricalKeywords ==
    { "power", "voltage", "current", "resistance", "capacitance", "temperature",
      "electrical" }

PhysicalKeywords ==
    { "capsule", "contact material", "operate time", "release time", "physical",
      "operational" }

\* the categories that the rows of the last table name or carry
BorneCategories ==
    LET rows == DataRows(LastTable)
    IN  { Carried(rows, n)[1] : n \in { j \in 1..Len(rows) : Bearing(rows, j) } }

InSection(section, category) ==
    Has(parsed_specs, section) /\ Has(Get(parsed_specs, section), category)

\* C15 as stated: a category containing an electrical keyword is in the
\* electrical section, one containing pull-in, test coil or magnetic is in the
\* magnetic section, one containing a physical keyword is in the physical section.
C15_SectionByKeyword ==
    table_index > 1 =>
        \A c \in BorneCategories :
            /\ Mentions(c, ElectricalKeywords)
                  => InSection("electrical specifications", c)
            /\ Mentions(c, { "pull-in", "test coil", "magnetic" })
                  => InSection("magnetic specifications", c)
            /\ Mentions(c, PhysicalKeywords)
                  => InSection("physical/operational specifications", c)

\* C15 amended: the keyword lists are tried in the order electrical, magnetic,
\* physical and the first list with a keyword in the category decides, the
\* magnetic keywords being "pull - in" (blanks around the hyphen), test coil
\* and magnetic; the category is in that section and in no other.
C15_SectionByFirstKeywordList ==
    table_index > 1 =>
        \A c \in BorneCategories :
            LET electrical == Mentions(c, ElectricalKeywords)
                magnetic == Mentions(c, { "pull - in", "test coil", "magnetic" })
                physical == Mentions(c, PhysicalKeywords)
                section == IF electrical THEN "electrical specifications"
                           ELSE IF magnetic THEN "magnetic specifications"
                           ELSE "physical/operational specifications"
            IN  (electrical \/ magnetic \/ physical) =>
                   \A x \in 1..Len(parsed_specs) :
                      Has(parsed_specs[x].v, c) <=> parsed_specs[x].k = section

\* "Pull - In Range" alone is in the magnetic section, "Magnetic Power" in the
\* electrical one
C15_Witness ==
    /\ table_index > 1
    /\ BorneCategories = { "Pull - In Range", "Magnetic Power" }
    /\ InSection("magnetic specifications", "Pull - In Range")
    /\ InSection("electrical specifications", "Magnetic Power")


\* no keyword of any section occurs in the category
Unmatched(category) ==
    /\ ~Mentions(category, ElectricalKeywords)
    /\ ~Mentions(category, { "pull - in", "test coil", "magnetic" })
    /\ ~Mentions(category, PhysicalKeywords)

\* the earlier rows of row n that have a category of their own or a carried one
Earlier(rows, n) == { j \in 1..(n - 1) : Bearing(rows, j) }

RECURSIVE InferredSection(_, _)
\* the section inferred for row n: the section of the first keyword list that
\* matches its category, else the section inferred for the closest earlier row
InferredSection(rows, n) ==
    LET category == Carried(rows, n)[1]
    IN  IF Mentions(category, ElectricalKeywords) THEN "electrical specifications"
        ELSE IF Mentions(category, { "pull - in", "test coil", "magnetic" })
        THEN "magnetic specifications"
        ELSE IF Mentions(category, PhysicalKeywords)
        THEN "physical/operational specifications"
        ELSE IF Earlier(rows, n) = {} THEN "electrical specifications"
        ELSE InferredSection(rows, Largest(Earlier(rows, n)))

\* C16: a category that no keyword matches is put in the section inferred for
\* the closest earlier row of the table that has a category, and in the
\* electrical section when there is no such row.
C16_UnmatchedCategoryFollowsSection ==
    table_index > 1 =>
        LET rows == DataRows(LastTable)
        IN  \A n \in 1..Len(rows) :
               (Bearing(rows, n) /\ Unmatched(Carried(rows, n)[1])) =>
                  IF Earlier(rows, n) = {}
                  THEN InSection("electrical specifications", Carried(rows, n)[1])
                  ELSE InSection(InferredSection(rows, Largest(Earlier(rows, n))),
                                 Carried(rows, n)[1])

\* "Weight" follows "Test Coil" into the magnetic section
C16_Witness ==
    /\ table_index > 1
    /\ LastTable = << << "Test Coil", "", "Ampere Turns - maximum", " 15 " >>,
                      << "Weight", "", "g", "5" >> >>
    /\ Keys(Get(parsed_specs, "magnetic specifications")) = { "Test Coil", "Weight" }

\* C17: when the tables of a document have all been merged, every subcategory
\* that some table's parse holds under a section and category is held by the
\* merged sections under that section and category.
C17_RepeatedCategoriesUnion ==
    pc = "sections_returned" =>
        \A k \in 1..Len(tables) :
            LET parsed == parse_table_to_specs(tables[k])
            IN  \A x \in 1..Len(parsed) : \A y \in 1..Len(parsed[x].v) :
                   \A z \in 1..Len(parsed[x].v[y].v) :
                      /\ Has(table_sections, parsed[x].k)
                      /\ Has(Get(table_sections, parsed[x].k), parsed[x].v[y].k)
                      /\ Has(Get(Get(table_sections, parsed[x].k), parsed[x].v[y].k),
                             parsed[x].v[y].v[z].k)


\* the value alone without a unit, else value, one blank, unit
Shown(value, unit) == IF unit = None THEN value ELSE value \o " " \o unit[1]

\* every Specification of a document, of any section
SpecsIn(content) ==
    UNION { UNION { { content.sections[s].v[c].v[n].v :
                        n \in 1..Len(content.sections[s].v[c].v) } :
                    c \in 1..Len(content.sections[s].v) } :
            s \in 1..Len(content.sections) }

\* C21: the display value of every Specification of a compared document, and of
\* every SpecificationValue of the response, is the value alone when there is
\* no unit and value, one blank, unit otherwise; the response carries over
\* value and unit of the document's Specification.
C21_DisplayValueDerived ==
    Returned =>
        /\ \A name \in Contributing : \A spec \in SpecsIn(Document(name)) :
              display_value(spec) = Shown(spec.value, spec.unit)
        /\ \A e \in ResponseSpecs : \A k \in 1..Len(e.spec.values) :
              LET held == e.spec.values[k].v
                  raw == RawSpec(e.spec.values[k].k, e.triple)
              IN  /\ held.display_value = Shown(held.value, held.unit)
                  /\ held.value = raw.value
                  /\ held.unit = raw.unit

\* one triple is returned with a value that has a unit and one that has none
C21_Witness ==
    /\ Returned
    /\ \E e \in ResponseSpecs : \E k1, k2 \in 1..Len(e.spec.values) :
          /\ e.spec.values[k1].v.unit = None
          /\ e.spec.values[k1].v.display_value = "24"
          /\ e.spec.values[k2].v.unit = Some("V")
          /\ e.spec.values[k2].v.display_value = "24 V"


\* the collection loop is over: the merge and compare stage is running or has returned
Collected == pc \in { "advantages", "specifications", "respond", "done" }

\* C22: from the end of collection until compare_models has returned, the
\* collected documents are the documents as extracted: sections, categories,
\* subcategories, values and units are what the collection loop stored.
C22_DocumentsNotMutated ==
    Collected => models = collect_model_data(pdf_dir, model_numbers, 1, EmptyDict)

\* two documents with specifications have been compared and differ
C22_Witness ==
    /\ Returned
    /\ Len(differences) > 0
    /\ Cardinality({ name \in Contributing : SpecsIn(Document(name)) # {} }) >= 2


\* C23: while a requested model is still to be extracted, compare_models is in
\* its collection loop and nothing of the merge and compare stage exists: no
\* merged feature, no enumerated section, no difference, no response. Once the
\* stage runs, the extraction of every requested model has been attempted and
\* the stage works on the complete set of collected documents.
C23_MergeWaitsForAllExtractions ==
    /\ i <= Len(model_numbers) =>
          /\ pc = "collect"
          /\ features = <<>> /\ advantages = <<>>
          /\ sections = EmptyDict /\ differences = <<>>
          /\ response = NoResponse
    /\ Collected =>
          /\ i = Len(model_numbers) + 1
          /\ Keys(models) = Keys(collect_model_data(pdf_dir, model_numbers, 1, EmptyDict))

\* three models were requested, the first succeeded, a later one failed, and
\* the merge stage has produced sections
C23_Witness ==
    /\ Len(model_numbers) = 3
    /\ pc = "respond"
    /\ get_content(pdf_dir, model_numbers[1]).ok
    /\ ~get_content(pdf_dir, model_numbers[3]).ok
    /\ Len(sections) > 0


\* the steps marked since construction or the last reset, as the log tells
Marked == { "+ Rules fetched", "+ Patterns cited", "+ Validation shown" }
             \cap Range(enforcer.validation_steps)

\* the required action of the first step not marked, in the order fetch
\* rules, cite patterns, show validation
FirstMissing ==
    IF "+ Rules fetched" \notin Marked THEN "fetch_rules(['rule_name'])"
    ELSE IF "+ Patterns cited" \notin Marked THEN "cite_patterns(rules)"
    ELSE "show_validation(patterns)"

\* C24: a call of a decorated function runs the function and raises nothing
\* when all three steps have been marked since construction or the last
\* reset; otherwise the function does not run and the call raises
\* BlockedActionError naming the first missing step in the order fetch rules,
\* cite patterns, show validation. This holds of the calls after a reset too.
C24_BlockedUntilAllStepsMarked ==
    [][calls' = calls + 1 =>
          IF Cardinality(Marked) = 3
          THEN body_runs' = body_runs + 1 /\ raised' = None
          ELSE /\ body_runs' = body_runs
               /\ raised' # None
               /\ raised'[1].required_action = FirstMissing]_vars

\* the function has run, and the last call, made after a reset, was blocked
\* for want of the rules
C24_Witness ==
    /\ body_runs >= 1
    /\ raised # None
    /\ raised[1].required_action = "fetch_rules(['rule_name'])"
    /\ enforcer.validation_steps = << "Rules must be fetched first" >>


\* the names of the PDF files of the directory that can, or cannot, be extracted
PdfNames(able) ==
    { directory[k].name : k \in { j \in 1..Len(directory) :
                                    /\ endswith(directory[j].name, ".pdf")
                                    /\ directory[j].readable = able } }

\* C25: in the LoadResult that process_directory returns, every PDF file of
\* the directory is named exactly once, in processed_files when its
\* processing succeeded and in failed_files when it failed, whatever happened
\* to the files before it; the keys of error_messages are exactly the failed
\* files; when every file succeeds failed_files and error_messages are empty.
C25_EveryFileAttempted ==
    pc = "loaded" =>
        /\ Range(load_result.processed_files) = PdfNames(TRUE)
        /\ Range(load_result.failed_files) = PdfNames(FALSE)
        /\ Len(load_result.processed_files) = Cardinality(PdfNames(TRUE))
        /\ Len(load_result.failed_files) = Cardinality(PdfNames(FALSE))
        /\ Keys(load_result.error_messages) = Range(load_result.failed_files)
        /\ Len(load_result.error_messages) = Len(load_result.failed_files)
        /\ PdfNames(FALSE) = {} =>
              /\ load_result.failed_files = << >>
              /\ load_result.error_messages = EmptyDict

\* the first file failed, two files failed in all, and a later file was processed
C25_Witness ==
    /\ pc = "loaded"
    /\ Len(load_result.failed_files) = 2
    /\ Len(load_result.processed_files) = 1
    /\ load_result.failed_files[1] = directory[1].name
    /\ load_result.processed_files[1] = directory[Len(directory)].name


\* C26: once the documents are collected, every requested model whose
\* extraction succeeded is a key of the collected documents, and the
\* contributing models are as many as the requested identifiers whose
\* extraction succeeded.
C26_SuccessfulModelsContribute ==
    Collected =>
        /\ \A id \in Succeeded : id \in Contributing
        /\ Cardinality(Contributing) = Cardinality(Succeeded)


\* every Specification of a parsed table
ParsedSpecifications ==
    UNION { UNION { { parsed_specs[x].v[y].v[z].v : z \in 1..Len(parsed_specs[x].v[y].v) } :
                    y \in 1..Len(parsed_specs[x].v) } :
            x \in 1..Len(parsed_specs) }

\* C27: every Specification that parse_table has stored has a value of at
\* least one character, as SpecificationValue requires.
C27_StoredValuesNonEmpty ==
    table_index > 1 =>
        \A spec \in ParsedSpecifications : SpecificationValueValid(spec)


\* row n has a category cell of its own and no value column
ShortNamed(rows, n) == Len(rows[n]) \in 1..3 /\ rows[n][1] # ""

\* the rows that have a cell that is not blank
NotBlank(rows) == SelectSeq(rows, LAMBDA r : \E k \in 1..Len(r) : r[k] # "")

\* C28: the blank rows of a table make no difference to what parse_table
\* returns. A row with a category cell and fewer than four cells puts its
\* category in the section inferred for it; the rows after it that have no
\* category cell of their own are stored under that category; the row itself
\* adds no subcategory: the subcategories of its category are those of the
\* rows with a value column that carry it.
C28_BlankAndShortRows ==
    table_index > 1 =>
        LET rows == DataRows(LastTable)
        IN  /\ parsed_specs = process_rows(NotBlank(rows),
                                 [specs |-> EmptyDict, current_category |-> None,
                                  current_section |-> None])
            /\ \A n \in 1..Len(rows) :
                  ShortNamed(rows, n) =>
                     /\ InSection(InferredSection(rows, n), rows[n][1])
                     /\ \A m \in (n + 1)..Len(rows) :
                           (Storing(rows, m) /\ \A j \in (n + 1)..m : rows[j][1] = "")
                              => \E x \in 1..Len(parsed_specs) :
                                    /\ Has(parsed_specs[x].v, rows[n][1])
                                    /\ Has(Get(parsed_specs[x].v, rows[n][1]), rows[m][2])
                     /\ \A x \in 1..Len(parsed_specs) :
                           Has(parsed_specs[x].v, rows[n][1]) =>
                              Keys(Get(parsed_specs[x].v, rows[n][1]))
                                 \subseteq { rows[m][2] :
                                               m \in { j \in 1..Len(rows) :
                                                         /\ Storing(rows, j)
                                                         /\ Carried(rows, j)
                                                               = Some(rows[n][1]) } }

\* after a heading row, a row of one cell names Capsule Type, a blank row
\* follows, and the last row, without a category cell, is stored under it
C28_Witness ==
    /\ table_index > 1
    /\ LastTable = << << "Contact Material" >>, << "Capsule Type" >>,
                      << "", "", "", "" >>, << "", "Max", "V", "30" >> >>
    /\ parsed_specs =
          << [k |-> "physical/operational specifications",
              v |-> << [k |-> "Capsule Type",
                        v |-> << [k |-> "Max",
                                  v |-> [unit |-> Some("V"), value |-> "30"]] >>] >>] >>


\* the state in which parse_table starts its loop over the rows
NoRowsYet == [specs |-> EmptyDict, current_category |-> None, current_section |-> None]

\* C29: parse_table returns the empty map for a table whose first row is the
\* two-column Features/Advantages heading. Otherwise, when row 0 has at least
\* three columns, a category cell that is not empty and one of its last two
\* cells not empty, it is processed like every other row and its category
\* is registered; when not, the result is that of the table without row 0.
C29_FirstRowDataOrHeader ==
    (table_index > 1 /\ Len(LastTable) > 0) =>
        LET first == [ k \in 1..Len(LastTable[1]) |-> strip(LastTable[1][k]) ]
            cells == Len(first)
        IN  IF cells = 2 /\ contains(first[1], "Features") /\ contains(first[2], "Advantages")
            THEN parsed_specs = EmptyDict
            ELSE IF /\ cells >= 3
                    /\ first[1] # ""
                    /\ (first[cells] # "" \/ first[cells - 1] # "")
            THEN /\ parsed_specs = process_rows(LastTable, NoRowsYet)
                 /\ \E x \in 1..Len(parsed_specs) : Has(parsed_specs[x].v, first[1])
            ELSE parsed_specs = process_rows(Tail(LastTable), NoRowsYet)

\* row 0 names a category in a single cell: it is skipped, and its category
\* is in no section of the result, which holds what the later rows gave
C29_Witness ==
    /\ table_index > 1
    /\ Len(LastTable) = 4
    /\ LastTable[1] = << "Contact Material" >>
    /\ Len(parsed_specs) = 1
    /\ Keys(parsed_specs[1].v) = { "Capsule Type" }


\* what is left of v when at most one '.' is taken out
WithoutOneDot(v) ==
    { v } \cup { SubSeq(v, 1, p - 1) \o SubSeq(v, p + 1, Len(v)) :
                   p \in { k \in 1..Len(v) : Char(v, k) = "." } }

\* taking out at most one '.' can leave a string of digits that is not empty
StrictlyNumeric(v) ==
    \E w \in WithoutOneDot(v) :
        Len(w) > 0 /\ \A k \in 1..Len(w) : Char(w, k) \in { Char("0123456789", d) : d \in 1..10 }

\* C30: a differing triple is settled by the numeric rule (the largest value,
\* "Value of {max} vs {min}" written as floats) exactly when every one of its
\* values is strictly numeric; a value with a sign, an exponent, a blank, a
\* second '.' or no digit at all is not, and one such value sends the triple
\* to the first-model rule, which names the first holder and quotes the values
\* as written.
C30_StrictNumericTest ==
    /\ \A v \in { "-40", "+125", "1e3", "1.2.3", "1 0", "." } : ~StrictlyNumeric(v)
    /\ \A v \in { "24", "2.5" } : StrictlyNumeric(v)
    /\ Returned =>
          \A k \in 1..Len(differences) :
             LET d == differences[k]
                 t == DifferenceTriple(d)
                 order == OrderedHolders(t)
                 written == [ j \in 1..Len(order) |-> RawValue(order[j], t) ]
             IN  IF \A j \in 1..Len(order) : StrictlyNumeric(written[j])
                 THEN /\ \A j \in 1..Len(order) :
                            ~FloatLess(float(RawValue(d.model, t)), float(written[j]))
                      /\ d.difference
                            = "Value of " \o float_str(float_max([ j \in 1..Len(order) |->
                                                                     float(written[j]) ]))
                              \o " vs " \o float_str(float_min([ j \in 1..Len(order) |->
                                                                   float(written[j]) ]))
                 ELSE /\ d.model = order[1]
                      /\ d.difference
                            = "Value of " \o written[1] \o " vs "
                              \o join(", ", [ j \in 1..(Len(order) - 1) |-> written[j + 1] ])

\* 24 and 30 come before -40: the first model is named, not the one with 30
C30_Witness ==
    /\ Returned
    /\ Len(differences) = 1
    /\ differences[1].difference = "Value of 24 vs 30, -40"

====
